---- MODULE Spec2Model ----
(***************************************************************************)
(* State-machine model of the MCP connection and resilience subsystem of   *)
(* ms-teams-ai-agent (src/src/app/mcp): the circuit breaker, the           *)
(* connection manager and the tool bridge.                                 *)
(***************************************************************************)
EXTENDS Integers, Sequences, FiniteSets, TLC

(***************************************************************************)
(* Bounds of the model                                                     *)
(***************************************************************************)
MaxTime == 3
MaxFailureThreshold == 2
MaxSuccessThreshold == 2
MaxRecoveryTimeout == 1
MaxRetries == 2
MaxClients == 2
MaxRequests == 3
MaxBackoffRetries == 7
MaxWrites == 3
MaxSchemas == 2
MaxLists == 1
MaxTools == 2
MaxEnvServers == 1

(***************************************************************************)
(* circuit_breaker.py: CircuitState and the values used by the callers     *)
(***************************************************************************)
CLOSED == "closed"
OPEN == "open"
HALF_OPEN == "half_open"
CircuitState == {CLOSED, OPEN, HALF_OPEN}

\* Optional[float] = None for _last_failure_time
None == -1

\* the concurrent tasks that share one breaker
Callers == {"c1", "c2"}

\* values an admitted operation may return
Values == {"v1", "v2"}
\* exception classes an admitted operation may raise; CancelledError derives
\* from BaseException only, the others from Exception
ExceptionTypes == {"ValueError", "MCPConnectionError", "CancelledError"}
IsException(t) == t \in {"ValueError", "MCPConnectionError"}

NoOutcome == [kind |-> "none", what |-> "none", by |-> "none"]
Returned(v) == [kind |-> "return", what |-> v, by |-> "operation"]
Raised(t, who) == [kind |-> "raise", what |-> t, by |-> who]
\* raise MCPConnectionError("Circuit breaker ... is OPEN ...")
CircuitOpenError == Raised("MCPConnectionError", "breaker")

VARIABLES
    \* CircuitBreaker.__init__ parameters
    failure_threshold, recovery_timeout, success_threshold,
    \* CircuitBreaker fields
    state, failure_count, success_count, last_failure_time,
    \* time.time()
    now,
    \* per caller: position in call() and the local current_state
    pc, current_state,
    \* history: the last breaker operation performed, with what the wrapped
    \* operation produced and what call() handed back; whether calls never
    \* overlapped; consecutive failing calls; successes of calls admitted in
    \* this trial
    last, serial, consec_failures, trial_successes,
    \* MCPConnectionManager: _config is set, _server_configs, _clients
    initialized, server_configs, clients,
    \* the client objects constructed so far, and the manager's tasks
    objects, task,
    \* MCPToolRegistry._tools, MCPToolBridge._request_id and the bridge's
    \* execute_tool calls
    tools, request_id, bcall,
    \* the MCPToolSchema objects constructed so far
    schemas,
    \* history: consecutive failed send_request calls per provider (counted
    \* up to failure_threshold) and the time of the last one
    provider_failures, provider_last_failure,
    \* the last _calculate_backoff call: its arguments and what it returned
    backoff,
    \* one MCPSTDIOClient with its subprocess: the pipes and the
    \* send_request in progress
    stdio,
    \* MCPToolRegistry._lock, the registry operations of the threads, and
    \* the lists returned by list_tools
    lock, rcall, lists,
    \* history: the last registry operation that returned, with what it
    \* returned; for every qualified name registered and not removed since,
    \* the (provider, local name) of the register_tool call that stored it
    rlast, registered,
    \* a discover_tools or discover_tools_from_manager call
    dcall,
    \* one client of each transport: its connection and the operation in
    \* progress on it
    conn,
    \* one load_mcp_config call: the configuration file, os.environ, and what
    \* the call returned or raised
    loader

breakerVars == <<failure_threshold, recovery_timeout, success_threshold,
                 state, failure_count, success_count, last_failure_time,
                 pc, current_state,
                 serial, consec_failures, trial_successes>>

managerVars == <<initialized, server_configs, clients, objects, task>>

bridgeVars == <<tools, schemas, request_id, bcall, provider_failures,
                provider_last_failure>>

registryVars == <<lock, rcall, lists, rlast, registered>>

otherUnits == <<registryVars, dcall, conn, loader>>

unitVars == <<backoff, stdio, otherUnits>>

vars == <<breakerVars, now, last, managerVars, bridgeVars, unitVars>>

settings == <<failure_threshold, recovery_timeout, success_threshold>>

\* the dict get_metrics() returns ("name" left out); read_at is the clock
\* reading of the state property, kept as history
NoMetrics ==
    [state |-> "none", failure_count |-> -1, success_count |-> -1,
     time_until_reset |-> None, read_at |-> -1]

OpCall(name, who, func, outcome) ==
    [op |-> name, who |-> who, pre |-> state, func |-> func,
     outcome |-> outcome, metrics |-> NoMetrics]

Op(name, who) == OpCall(name, who, NoOutcome, NoOutcome)

(***************************************************************************)
(* CircuitBreaker                                                          *)
(***************************************************************************)
\* _should_attempt_reset
should_attempt_reset_late ==
    IF last_failure_time = None THEN FALSE
    ELSE now - last_failure_time > recovery_timeout

should_attempt_reset_always ==
    last_failure_time # None

should_attempt_reset ==
    IF last_failure_time = None THEN FALSE
    ELSE now - last_failure_time >= recovery_timeout

\* the state property: the lazy OPEN -> HALF_OPEN transition
state_property ==
    IF state = OPEN /\ should_attempt_reset
    THEN /\ state' = HALF_OPEN
         /\ success_count' = 0
    ELSE /\ state' = state
         /\ success_count' = success_count

\* _time_until_reset
time_until_reset_elapsed ==
    IF last_failure_time = None THEN 0
    ELSE now - last_failure_time

time_until_reset ==
    IF last_failure_time = None THEN 0
    ELSE IF recovery_timeout - (now - last_failure_time) > 0
         THEN recovery_timeout - (now - last_failure_time)
         ELSE 0

\* _on_success
on_success_late_close ==
    IF state = HALF_OPEN
    THEN IF success_count + 1 > success_threshold
         THEN /\ state' = CLOSED
              /\ failure_count' = 0
              /\ success_count' = 0
              /\ last_failure_time' = None
         ELSE /\ success_count' = success_count + 1
              /\ UNCHANGED <<state, failure_count, last_failure_time>>
    ELSE IF state = CLOSED
         THEN /\ failure_count' = 0
              /\ UNCHANGED <<state, success_count, last_failure_time>>
         ELSE UNCHANGED <<state, failure_count, success_count, last_failure_time>>

on_success ==
    IF state = HALF_OPEN
    THEN IF success_count + 1 >= success_threshold
         THEN /\ state' = CLOSED
              /\ failure_count' = 0
              /\ success_count' = 0
              /\ last_failure_time' = None
         ELSE /\ success_count' = success_count + 1
              /\ UNCHANGED <<state, failure_count, last_failure_time>>
    ELSE IF state = CLOSED
         THEN /\ failure_count' = 0
              /\ UNCHANGED <<state, success_count, last_failure_time>>
         ELSE UNCHANGED <<state, failure_count, success_count, last_failure_time>>

\* _on_failure
on_failure_stays_half_open ==
    /\ failure_count' = failure_count + 1
    /\ last_failure_time' = now
    /\ IF state = HALF_OPEN
       THEN /\ state' = IF success_count > 0 THEN HALF_OPEN ELSE OPEN
            /\ success_count' = 0
       ELSE IF state = CLOSED
            THEN /\ state' = IF failure_count + 1 >= failure_threshold
                             THEN OPEN ELSE CLOSED
                 /\ UNCHANGED success_count
            ELSE UNCHANGED <<state, success_count>>

on_failure_keeps_successes ==
    /\ failure_count' = failure_count + 1
    /\ last_failure_time' = now
    /\ IF state = HALF_OPEN
       THEN /\ state' = OPEN
            /\ UNCHANGED success_count
       ELSE IF state = CLOSED
            THEN /\ state' = IF failure_count + 1 >= failure_threshold
                             THEN OPEN ELSE CLOSED
                 /\ UNCHANGED success_count
            ELSE UNCHANGED <<state, success_count>>

on_failure_late_open ==
    /\ failure_count' = failure_count + 1
    /\ last_failure_time' = now
    /\ IF state = HALF_OPEN
       THEN /\ state' = OPEN
            /\ success_count' = 0
       ELSE IF state = CLOSED
            THEN /\ state' = IF failure_count + 1 > failure_threshold
                             THEN OPEN ELSE CLOSED
                 /\ UNCHANGED success_count
            ELSE UNCHANGED <<state, success_count>>

on_failure ==
    /\ failure_count' = failure_count + 1
    /\ last_failure_time' = now
    /\ IF state = HALF_OPEN
       THEN /\ state' = OPEN
            /\ success_count' = 0
       ELSE IF state = CLOSED
            THEN /\ state' = IF failure_count + 1 >= failure_threshold
                             THEN OPEN ELSE CLOSED
                 /\ UNCHANGED success_count
            ELSE UNCHANGED <<state, success_count>>

\* what call() hands to its caller for what the operation produced:
\* "return result" and the bare "raise"
call_result_wrapped(r) ==
    IF r.kind = "raise" THEN Raised("MCPConnectionError", "breaker") ELSE r

call_result(r) == r

\* history: a new trial starts when the state property moves to HALF_OPEN
trial_started ==
    trial_successes' = IF state = OPEN /\ state' = HALF_OPEN
                       THEN 0 ELSE trial_successes

\* an external read of breaker.state
ObserveState ==
    /\ state_property
    /\ last' = Op("state", "none")
    /\ trial_started
    /\ UNCHANGED <<settings, failure_count, last_failure_time, now, pc,
                   current_state, serial, consec_failures>>
    /\ UNCHANGED <<managerVars, bridgeVars, unitVars>>

\* get_metrics(): reads the state property, then the counters, then
\* _time_until_reset() if _state is OPEN; the clock is read once by
\* _should_attempt_reset and once more, at the time later, by
\* _time_until_reset
GetMetrics(later) ==
    /\ later \in now..MaxTime
    /\ state_property
    /\ now' = later
    /\ trial_started
    /\ UNCHANGED <<settings, failure_count, last_failure_time, pc,
                   current_state, serial, consec_failures>>
    /\ last' = [Op("get_metrics", "none") EXCEPT !.metrics =
            [state |-> state',
             failure_count |-> failure_count',
             success_count |-> success_count',
             time_until_reset |->
                 IF state' = OPEN THEN time_until_reset' ELSE None,
             read_at |-> now]]
    /\ UNCHANGED <<managerVars, bridgeVars, unitVars>>

\* call(), up to the await of the wrapped operation: read the state
\* property, fail fast when OPEN, otherwise start the operation
CallBegin(c) ==
    /\ pc[c] = "idle"
    /\ state_property
    /\ IF state' = OPEN
       THEN /\ last' = OpCall("call_rejected", c, NoOutcome, CircuitOpenError)
            /\ UNCHANGED <<pc, current_state, serial>>
       ELSE /\ pc' = [pc EXCEPT ![c] = "awaiting"]
            /\ current_state' = [current_state EXCEPT ![c] = state']
            /\ serial' = (serial /\ \A d \in Callers \ {c} : pc[d] = "idle")
            /\ last' = Op("call_admitted", c)
    /\ trial_started
    /\ UNCHANGED <<settings, failure_count, last_failure_time, now,
                   consec_failures>>
    /\ UNCHANGED <<managerVars, bridgeVars, unitVars>>

\* call(): the operation returned v
CallReturn(c, v) ==
    /\ pc[c] = "awaiting"
    /\ on_success
    /\ pc' = [pc EXCEPT ![c] = "idle"]
    /\ consec_failures' = 0
    /\ trial_successes' = IF state = HALF_OPEN /\ current_state[c] = HALF_OPEN
                          THEN trial_successes + 1 ELSE trial_successes
    /\ last' = OpCall("call_return", c, Returned(v), call_result(Returned(v)))
    /\ UNCHANGED <<settings, now, current_state, serial>>
    /\ UNCHANGED <<managerVars, bridgeVars, unitVars>>

\* call(): the operation raised t; "except Exception" records a failure,
\* anything else passes through unrecorded
CallRaise(c, t) ==
    /\ pc[c] = "awaiting"
    /\ IF IsException(t)
       THEN /\ on_failure
            /\ consec_failures' = consec_failures + 1
       ELSE UNCHANGED <<state, failure_count, success_count,
                        last_failure_time, consec_failures>>
    /\ pc' = [pc EXCEPT ![c] = "idle"]
    /\ last' = OpCall("call_raise", c, Raised(t, "operation"),
                      call_result(Raised(t, "operation")))
    /\ UNCHANGED <<settings, now, current_state, serial, trial_successes>>
    /\ UNCHANGED <<managerVars, bridgeVars, unitVars>>

\* reset()
Reset_keeps_failures ==
    /\ state' = CLOSED
    /\ success_count' = 0
    /\ last_failure_time' = None
    /\ consec_failures' = 0
    /\ last' = Op("reset", "none")
    /\ UNCHANGED <<settings, failure_count, now, pc, current_state, serial,
                   trial_successes>>
    /\ UNCHANGED <<managerVars, bridgeVars, unitVars>>

Reset ==
    /\ state' = CLOSED
    /\ failure_count' = 0
    /\ success_count' = 0
    /\ last_failure_time' = None
    /\ consec_failures' = 0
    /\ last' = Op("reset", "none")
    /\ UNCHANGED <<settings, now, pc, current_state, serial,
                   trial_successes>>
    /\ UNCHANGED <<managerVars, bridgeVars, unitVars>>

\* time.time() advances
Tick ==
    /\ now < MaxTime
    /\ now' = now + 1
    /\ last' = Op("tick", "none")
    /\ UNCHANGED breakerVars
    /\ UNCHANGED <<managerVars, bridgeVars, unitVars>>

(***************************************************************************)
(* manager.py: MCPConnectionManager                                        *)
(***************************************************************************)
ServerNames == {"a", "b"}
Tasks == {"t1", "t2"}

\* the coroutine that asyncio.gather runs for server_name on behalf of the
\* connect_all_enabled or shutdown call of task t
Child(t, server_name) == t \o "." \o server_name
Children == {Child(t, n) : t \in Tasks, n \in ServerNames}

STDIO == "stdio"
SSE == "sse"
TransportType == {STDIO, SSE}

\* MCPServerConfig, as far as the manager reads it
ServerConfig == [enabled : BOOLEAN, transport : TransportType]

\* MCPServersConfig.mcpServers: a dict from server name to MCPServerConfig
ServersConfigs ==
    UNION {[D -> ServerConfig] : D \in SUBSET ServerNames}

EmptyDict == [n \in {} |-> 0]

\* d[k] = v
DictSet(d, k, v) ==
    [n \in DOMAIN d \cup {k} |-> IF n = k THEN v ELSE d[n]]

\* del d[k]
DictDel_keeps(d, k) == d

DictDel(d, k) == [n \in DOMAIN d \ {k} |-> d[n]]

\* MCPClientFactory.create_client: a new, disconnected client object
create_client(config) ==
    IF config.transport = STDIO
    THEN [kind |-> "MCPSTDIOClient", connected |-> FALSE,
          disconnect_called |-> FALSE]
    ELSE IF config.transport = SSE
         THEN [kind |-> "MCPSSEClient", connected |-> FALSE,
               disconnect_called |-> FALSE]
         ELSE [kind |-> "ValueError", connected |-> FALSE,
               disconnect_called |-> FALSE]

\* what client.connect() can do: MCPSTDIOClient turns every failure into
\* MCPConnectionError, MCPSSEClient lets a TypeError through
ConnectOutcomes(client) ==
    IF client.kind = "MCPSTDIOClient"
    THEN {"True", "MCPConnectionError"}
    ELSE {"True", "MCPConnectionError", "TypeError"}

\* _calculate_backoff: the defaults of base_delay and max_delay, in seconds,
\* and values of random.uniform(0, 0.5), in hundredths
BaseDelay == 1
MaxDelay == 30
Jitters == {0, 25, 50}

RECURSIVE Pow2(_)
Pow2(n) == IF n <= 0 THEN 1 ELSE 2 * Pow2(n - 1)

Min(x, y) == IF x <= y THEN x ELSE y

\* _calculate_backoff(attempt, jitter=jitter), in hundredths of a second,
\* when random.uniform(0, 0.5) yields uniform
calculate_backoff_uncapped(attempt, jitter, uniform) ==
    LET delay == BaseDelay * Pow2(attempt) * 100
    IN IF jitter THEN delay + (delay * uniform) \div 100 ELSE delay

calculate_backoff(attempt, jitter, uniform) ==
    LET delay == Min(BaseDelay * Pow2(attempt), MaxDelay) * 100
    IN IF jitter THEN delay + (delay * uniform) \div 100 ELSE delay

NoBackoff == [attempt |-> None, jitter |-> FALSE, delay |-> 0]

\* a call of _calculate_backoff(attempt, jitter=jitter) on its own
CalculateBackoff(attempt, jitter, uniform) ==
    /\ backoff' = [attempt |-> attempt, jitter |-> jitter,
                   delay |-> calculate_backoff(attempt, jitter, uniform)]
    /\ UNCHANGED <<breakerVars, now, last, managerVars, bridgeVars, stdio, otherUnits>>

\* keys: the names a connect_all_enabled or shutdown fanned out to, or the
\* names health_check_all has visited; size: the length of the pool when
\* health_check_all began to iterate it; results: the dict being returned
IdleTask ==
    [pc |-> "idle", op |-> "none", name |-> "none", max_retries |-> 0,
     attempt |-> 0, client |-> 0, delay |-> 0, connects |-> 0,
     sleeps |-> 0, disconnects |-> 0, keys |-> {}, size |-> 0,
     results |-> EmptyDict, result |-> NoOutcome]

\* a manager operation that ran to its end: its locals are gone, what it
\* did and what it returned or raised remain
Finished(t, r) ==
    [t EXCEPT !.pc = "idle", !.attempt = 0, !.client = 0, !.delay = 0,
              !.size = 0, !.result = r]

\* range(max_retries) has an element after attempt
more_attempts_off_by_one(attempt, max_retries) == attempt < max_retries

more_attempts(attempt, max_retries) == attempt < max_retries - 1

\* "if not config.enabled"
is_enabled_any(config) == TRUE

is_enabled(config) == config.enabled

\* initialize(config); the application calls it once
Initialize(cfg) ==
    /\ ~initialized
    /\ initialized' = TRUE
    /\ server_configs' = cfg
    /\ UNCHANGED <<clients, objects, task>>
    /\ UNCHANGED <<breakerVars, now, last, bridgeVars, unitVars>>

\* connect_server(server_name, max_retries) run by t, up to the first await
connect_server(t, server_name, max_retries) ==
    /\ LET started == [IdleTask EXCEPT !.op = "connect_server",
                                       !.name = server_name,
                                       !.max_retries = max_retries]
       IN IF server_name \notin DOMAIN server_configs
          THEN /\ task' = [task EXCEPT ![t] =
                     Finished(started, Raised("MCPConnectionError", "manager"))]
               /\ UNCHANGED objects
          ELSE IF ~is_enabled(server_configs[server_name])
          THEN /\ task' = [task EXCEPT ![t] =
                     Finished(started, Raised("MCPConnectionError", "manager"))]
               /\ UNCHANGED objects
          ELSE /\ Len(objects) < MaxClients
               /\ objects' = Append(objects,
                                    create_client(server_configs[server_name]))
               /\ IF 0 < max_retries
                  THEN task' = [task EXCEPT ![t] =
                          [started EXCEPT !.pc = "connecting",
                                          !.client = Len(objects) + 1,
                                          !.connects = 1]]
                  ELSE task' = [task EXCEPT ![t] =
                          Finished([started EXCEPT !.client = Len(objects) + 1],
                                   Raised("MCPConnectionError", "manager"))]
    /\ UNCHANGED <<initialized, server_configs, clients>>
    /\ UNCHANGED <<breakerVars, now, last, bridgeVars, unitVars>>

\* a task calls connect_server(server_name, max_retries)
ConnectServerBegin(t, server_name, max_retries) ==
    /\ task[t].pc = "idle"
    /\ connect_server(t, server_name, max_retries)

\* connect_server: the awaited client.connect() completed with outcome r
ConnectResult(t, r, jitter) ==
    /\ task[t].pc = "connecting"
    /\ r \in ConnectOutcomes(objects[task[t].client])
    /\ IF r = "True"
       THEN /\ objects' = [objects EXCEPT ![task[t].client].connected = TRUE]
            /\ clients' = DictSet(clients, task[t].name, task[t].client)
            /\ task' = [task EXCEPT ![t] = Finished(@, Returned("True"))]
       ELSE IF r = "MCPConnectionError"
       THEN /\ IF more_attempts(task[t].attempt, task[t].max_retries)
               THEN task' = [task EXCEPT ![t].pc = "sleeping",
                                         ![t].delay =
                                            calculate_backoff(task[t].attempt,
                                                              TRUE, jitter),
                                         ![t].sleeps = @ + 1]
               ELSE task' = [task EXCEPT ![t] =
                       Finished(@, Raised("MCPConnectionError", "manager"))]
            /\ UNCHANGED <<objects, clients>>
       ELSE /\ task' = [task EXCEPT ![t] = Finished(@, Raised(r, "client"))]
            /\ UNCHANGED <<objects, clients>>
    /\ UNCHANGED <<initialized, server_configs>>
    /\ UNCHANGED <<breakerVars, now, last, bridgeVars, unitVars>>

\* connect_server: asyncio.sleep(delay) is over, the next attempt starts
SleepDone(t) ==
    /\ task[t].pc = "sleeping"
    /\ task' = [task EXCEPT ![t].pc = "connecting",
                            ![t].attempt = @ + 1,
                            ![t].connects = @ + 1]
    /\ UNCHANGED <<initialized, server_configs, clients, objects>>
    /\ UNCHANGED <<breakerVars, now, last, bridgeVars, unitVars>>

\* disconnect_server(server_name) run by t, up to the await inside
\* client.disconnect()
disconnect_server(t, server_name) ==
    /\ LET started == [IdleTask EXCEPT !.op = "disconnect_server",
                                       !.name = server_name]
       IN IF server_name \notin DOMAIN clients
          THEN /\ task' = [task EXCEPT ![t] =
                     Finished(started, Raised("MCPConnectionError", "manager"))]
               /\ UNCHANGED objects
          ELSE /\ task' = [task EXCEPT ![t] =
                     [started EXCEPT !.pc = "disconnecting",
                                     !.client = clients[server_name],
                                     !.disconnects = 1]]
               /\ objects' = [objects EXCEPT
                     ![clients[server_name]].disconnect_called = TRUE]
    /\ UNCHANGED <<initialized, server_configs, clients>>
    /\ UNCHANGED <<breakerVars, now, last, bridgeVars, unitVars>>

\* a task calls disconnect_server(server_name)
DisconnectServerBegin(t, server_name) ==
    /\ task[t].pc = "idle"
    /\ disconnect_server(t, server_name)

\* disconnect_server: client.disconnect() returned, then
\* "del self._clients[server_name]"
DisconnectServerEnd(t) ==
    /\ task[t].pc = "disconnecting"
    /\ objects' = [objects EXCEPT ![task[t].client].connected = FALSE]
    /\ IF task[t].name \in DOMAIN clients
       THEN /\ clients' = DictDel(clients, task[t].name)
            /\ task' = [task EXCEPT ![t] = Finished(@, Returned("None"))]
       ELSE /\ UNCHANGED clients
            /\ task' = [task EXCEPT ![t] =
                    Finished(@, Raised("KeyError", "manager"))]
    /\ UNCHANGED <<initialized, server_configs>>
    /\ UNCHANGED <<breakerVars, now, last, bridgeVars, unitVars>>

\* get_client(server_name): the pooled client, or MCPConnectionError
get_client(server_name) ==
    IF server_name \notin DOMAIN clients
    THEN Raised("MCPConnectionError", "manager")
    ELSE Returned(clients[server_name])

\* get_server_status()
get_server_status ==
    [n \in DOMAIN server_configs |->
        [enabled |-> server_configs[n].enabled,
         connected |-> n \in DOMAIN clients]]

\* the default of connect_server's max_retries
DefaultMaxRetries == 3

\* connect_all_enabled: the names whose configuration is enabled
enabled_names_all == DOMAIN server_configs

enabled_names ==
    {n \in DOMAIN server_configs : is_enabled(server_configs[n])}

\* connect_all_enabled: the boolean stored for what gather handed back
gathered_value(result) ==
    IF result.kind = "raise" THEN FALSE
    ELSE IF result.what \in {"True", "False"} THEN result.what = "True"
    ELSE FALSE

\* a coroutine handed to asyncio.gather that has not run yet
Spawned(op, server_name, max_retries) ==
    [IdleTask EXCEPT !.pc = "spawned", !.op = op, !.name = server_name,
                     !.max_retries = max_retries]

\* task t waits in asyncio.gather for one coroutine per name
Gather(t, started, op, names, max_retries) ==
    [x \in DOMAIN task |->
        IF x = t THEN [started EXCEPT !.pc = "gathering", !.keys = names]
        ELSE IF \E n \in names : x = Child(t, n)
        THEN Spawned(op, CHOOSE n \in names : x = Child(t, n), max_retries)
        ELSE task[x]]

\* asyncio.gather returned to task t, which ends with outcome r
Gathered(t, results, r) ==
    [x \in DOMAIN task |->
        IF x = t
        THEN Finished([task[t] EXCEPT !.results = results, !.keys = {}], r)
        ELSE IF \E n \in task[t].keys : x = Child(t, n) THEN IdleTask
        ELSE task[x]]

\* connect_all_enabled(), up to the await of asyncio.gather
ConnectAllEnabledBegin(t) ==
    /\ task[t].pc = "idle"
    /\ LET started == [IdleTask EXCEPT !.op = "connect_all_enabled"]
       IN IF enabled_names = {}
          THEN task' = [task EXCEPT ![t] =
                           Finished(started, Returned("results"))]
          ELSE task' = Gather(t, started, "connect_server", enabled_names,
                              DefaultMaxRetries)
    /\ UNCHANGED <<initialized, server_configs, clients, objects>>
    /\ UNCHANGED <<breakerVars, now, last, bridgeVars, unitVars>>

\* a connect_server coroutine of connect_all_enabled starts to run; the
\* coroutines of one gather start in any order
GatheredConnect(t, server_name) ==
    /\ task[Child(t, server_name)].pc = "spawned"
    /\ task[Child(t, server_name)].op = "connect_server"
    /\ connect_server(Child(t, server_name), server_name,
                      task[Child(t, server_name)].max_retries)

\* connect_all_enabled: every coroutine has ended, the results are collected
ConnectAllEnabledEnd(t) ==
    /\ task[t].pc = "gathering"
    /\ task[t].op = "connect_all_enabled"
    /\ \A n \in task[t].keys : task[Child(t, n)].pc = "idle"
    /\ task' = Gathered(t,
                        [n \in task[t].keys |->
                            gathered_value(task[Child(t, n)].result)],
                        Returned("results"))
    /\ UNCHANGED <<initialized, server_configs, clients, objects>>
    /\ UNCHANGED <<breakerVars, now, last, bridgeVars, unitVars>>

\* shutdown(), up to the await of asyncio.gather
ShutdownBegin(t) ==
    /\ task[t].pc = "idle"
    /\ LET started == [IdleTask EXCEPT !.op = "shutdown"]
       IN IF DOMAIN clients = {}
          THEN /\ task' = [task EXCEPT ![t] =
                              Finished(started, Returned("None"))]
               /\ clients' = EmptyDict
          ELSE /\ task' = Gather(t, started, "disconnect_server",
                                 DOMAIN clients, 0)
               /\ UNCHANGED clients
    /\ UNCHANGED <<initialized, server_configs, objects>>
    /\ UNCHANGED <<breakerVars, now, last, bridgeVars, unitVars>>

\* a disconnect_server coroutine of shutdown starts to run
GatheredDisconnect(t, server_name) ==
    /\ task[Child(t, server_name)].pc = "spawned"
    /\ task[Child(t, server_name)].op = "disconnect_server"
    /\ disconnect_server(Child(t, server_name), server_name)

\* shutdown: every coroutine has ended, then "self._clients.clear()"
ShutdownEnd(t) ==
    /\ task[t].pc = "gathering"
    /\ task[t].op = "shutdown"
    /\ \A n \in task[t].keys : task[Child(t, n)].pc = "idle"
    /\ clients' = EmptyDict
    /\ task' = Gathered(t, EmptyDict, Returned("None"))
    /\ UNCHANGED <<initialized, server_configs, objects>>
    /\ UNCHANGED <<breakerVars, now, last, bridgeVars, unitVars>>

\* what an awaited is_healthy() hands to health_check_all: MCPClient leaves
\* is_healthy to its subclasses, so a boolean or any exception
HealthOutcomes == {"True", "False", "Exception"}

\* "health_status[server_name] = is_healthy", or False in the except branch
health_value(r) == r = "True"

\* MCPSSEClient.is_healthy awaits an HTTP GET once it is connected;
\* MCPSTDIOClient.is_healthy reads the process state and never suspends
suspends(client) == client.kind = "MCPSSEClient" /\ client.connected

\* MCPSTDIOClient.is_healthy, alive telling whether the process still runs
stdio_is_healthy(client, alive) ==
    IF ~client.connected THEN "False" ELSE alive

\* the orders in which a dict may hold the server names
Orders ==
    {o \in [1..Cardinality(ServerNames) -> ServerNames] :
        \A i, j \in DOMAIN o : o[i] = o[j] => i = j}

\* the first name of order that is in names
first(order, names) ==
    order[CHOOSE i \in DOMAIN order :
             /\ order[i] \in names
             /\ \A j \in DOMAIN order : j < i => order[j] \notin names]

\* health_check_all from the next iteration of its loop on, up to the next
\* is_healthy() that suspends or to the end of the loop; a pool that changed
\* while keeping its length is read as it is now
RECURSIVE check_from(_, _, _, _, _)
check_from(t, keys, results, order, alive) ==
    LET rest == DOMAIN clients \ keys
    IN IF rest = {}
       THEN Finished([t EXCEPT !.keys = {}, !.results = results],
                     Returned("results"))
       ELSE LET n == first(order, rest)
            IN IF suspends(objects[clients[n]])
               THEN [t EXCEPT !.pc = "checking", !.name = n,
                              !.client = clients[n],
                              !.keys = keys \cup {n}, !.results = results]
               ELSE check_from(t, keys \cup {n},
                               DictSet(results, n,
                                       health_value(stdio_is_healthy(
                                           objects[clients[n]], alive[n]))),
                               order, alive)

\* health_check_all(), up to the first is_healthy() that suspends
HealthCheckAllBegin(t, order, alive) ==
    /\ task[t].pc = "idle"
    /\ task' = [task EXCEPT ![t] =
                   check_from([IdleTask EXCEPT
                                  !.op = "health_check_all",
                                  !.size = Cardinality(DOMAIN clients)],
                              {}, EmptyDict, order, alive)]
    /\ UNCHANGED <<initialized, server_configs, clients, objects>>
    /\ UNCHANGED <<breakerVars, now, last, bridgeVars, unitVars>>

\* health_check_all: the awaited is_healthy() completed with outcome r; the
\* dict iterator then raises RuntimeError if the dict changed its length
HealthCheckAllStep(t, r, order, alive) ==
    /\ task[t].pc = "checking"
    /\ task' = [task EXCEPT ![t] =
          IF Cardinality(DOMAIN clients) # task[t].size
          THEN Finished([task[t] EXCEPT !.keys = {}, !.results = EmptyDict],
                        Raised("RuntimeError", "manager"))
          ELSE check_from(task[t], task[t].keys,
                          DictSet(task[t].results, task[t].name,
                                  health_value(r)),
                          order, alive)]
    /\ UNCHANGED <<initialized, server_configs, clients, objects>>
    /\ UNCHANGED <<breakerVars, now, last, bridgeVars, unitVars>>

(***************************************************************************)
(* client.py: MCPSTDIOClient and the subprocess behind it                  *)
(***************************************************************************)
\* a line on stdout that is not JSON
Garbage == 0

\* MCPSTDIOClient.__init__; requests are numbered in the order written;
\* unanswered holds the requests the provider has read and not answered,
\* stdout the response lines not read yet, each naming the request it
\* answers
NewStdioClient ==
    [connected |-> FALSE, exited |-> FALSE, written |-> 0,
     unanswered |-> <<>>, stdout |-> <<>>,
     pc |-> "idle", id |-> 0, result |-> NoOutcome]

\* connect(): the subprocess is started
StdioConnect ==
    /\ ~stdio.connected
    /\ stdio.pc = "idle"
    /\ stdio' = [NewStdioClient EXCEPT !.connected = TRUE]
    /\ UNCHANGED <<breakerVars, now, last, managerVars, bridgeVars, backoff, otherUnits>>

\* send_request(request), up to the await of stdout.readline(): the request
\* is written to stdin
SendRequestBegin ==
    /\ stdio.pc = "idle"
    /\ IF ~stdio.connected
       THEN stdio' = [stdio EXCEPT
                         !.id = 0,
                         !.result = Raised("MCPConnectionError", "client")]
       ELSE /\ stdio.written < MaxWrites
            /\ stdio' = [stdio EXCEPT
                            !.pc = "reading",
                            !.written = @ + 1,
                            !.id = stdio.written + 1,
                            !.unanswered =
                                IF stdio.exited THEN @
                                ELSE Append(@, stdio.written + 1),
                            !.result = NoOutcome]
    /\ UNCHANGED <<breakerVars, now, last, managerVars, bridgeVars, backoff, otherUnits>>

\* the provider answers its oldest unanswered request, or prints a line
\* that is not JSON
ProviderRespond(valid) ==
    /\ stdio.unanswered # <<>>
    /\ ~stdio.exited
    /\ stdio' = [stdio EXCEPT
                    !.unanswered = Tail(@),
                    !.stdout = Append(@, IF valid THEN Head(stdio.unanswered)
                                         ELSE Garbage)]
    /\ UNCHANGED <<breakerVars, now, last, managerVars, bridgeVars, backoff, otherUnits>>

\* the subprocess exits: its stdout reaches end of file
ProviderExit ==
    /\ stdio.connected
    /\ ~stdio.exited
    /\ stdio' = [stdio EXCEPT !.exited = TRUE, !.unanswered = <<>>]
    /\ UNCHANGED <<breakerVars, now, last, managerVars, bridgeVars, backoff, otherUnits>>

\* json.loads(response_line): the response, or JSONDecodeError turned into
\* MCPTransportError
parse_response(line) ==
    IF line = Garbage THEN Raised("MCPTransportError", "client")
    ELSE Returned(line)

\* send_request: readline() returned the next line of stdout, or the empty
\* line at end of file
SendRequestRead ==
    /\ stdio.pc = "reading"
    /\ IF stdio.stdout # <<>>
       THEN stdio' = [stdio EXCEPT !.pc = "idle",
                                   !.stdout = Tail(@),
                                   !.result = parse_response(Head(stdio.stdout))]
       ELSE /\ stdio.exited
            /\ stdio' = [stdio EXCEPT
                            !.pc = "idle",
                            !.result = Raised("MCPTransportError", "client")]
    /\ UNCHANGED <<breakerVars, now, last, managerVars, bridgeVars, backoff, otherUnits>>

\* send_request: wait_for gave up on readline() before a line arrived
SendRequestTimeout ==
    /\ stdio.pc = "reading"
    /\ stdio.stdout = <<>>
    /\ ~stdio.exited
    /\ stdio' = [stdio EXCEPT !.pc = "idle",
                              !.result = Raised("MCPTimeoutError", "client")]
    /\ UNCHANGED <<breakerVars, now, last, managerVars, bridgeVars, backoff, otherUnits>>

(***************************************************************************)
(* registry.py and bridge.py: MCPToolRegistry, MCPToolBridge               *)
(***************************************************************************)
ToolNames == {"read_file"}
Params == {"args1", "args2"}

\* f"{server_name}.{tool.name}"
full_name(server_name, name) == server_name \o "." \o name

FullNames == {full_name(n, tl) : n \in ServerNames, tl \in ToolNames}

\* MCPToolSchema(name=...): server_name and full_name default to ""
MCPToolSchema(name) == [name |-> name, server_name |-> "", full_name |-> ""]

\* register_tool: tool.server_name and tool.full_name are assigned on the
\* descriptor object handed in
set_names(heap, tool, server_name) ==
    [heap EXCEPT ![tool].server_name = server_name,
                 ![tool].full_name = full_name(server_name, heap[tool].name)]

\* register_tool(server_name, MCPToolSchema(name)) by the only thread there
\* is: a new descriptor is constructed, registered and stored by reference
RegisterTool(server_name, name) ==
    /\ Len(schemas) < MaxSchemas
    /\ LET heap == Append(schemas, MCPToolSchema(name))
           tool == Len(heap)
       IN /\ schemas' = set_names(heap, tool, server_name)
          /\ tools' = DictSet(tools, full_name(server_name, name), tool)
    /\ UNCHANGED <<request_id, bcall, provider_failures,
                   provider_last_failure>>
    /\ UNCHANGED <<breakerVars, now, last, managerVars, unitVars>>

\* get_tool(full_name): the descriptor stored under the name, or None
NoTool == [name |-> "none", server_name |-> "none", full_name |-> "none"]

get_tool_any(full_tool_name) ==
    IF full_tool_name \in DOMAIN tools THEN schemas[tools[full_tool_name]]
    ELSE [name |-> "read_file", server_name |-> "a",
          full_name |-> full_tool_name]

get_tool(full_tool_name) ==
    IF full_tool_name \in DOMAIN tools THEN schemas[tools[full_tool_name]]
    ELSE NoTool

\* the JSON-RPC request built by execute_tool
NoRequest ==
    [jsonrpc |-> "none", method |-> "none", id |-> 0,
     params |-> [name |-> "none", arguments |-> "none"]]

tools_call_request_qualified(id, tool, params) ==
    [jsonrpc |-> "2.0", method |-> "tools/call", id |-> id,
     params |-> [name |-> tool.full_name, arguments |-> params]]

tools_call_request_first_id(id, tool, params) ==
    [jsonrpc |-> "2.0", method |-> "tools/call", id |-> 1,
     params |-> [name |-> tool.name, arguments |-> params]]

tools_call_request(id, tool, params) ==
    [jsonrpc |-> "2.0", method |-> "tools/call", id |-> id,
     params |-> [name |-> tool.name, arguments |-> params]]

\* no response received
NoResponse == [result |-> "none", error |-> "none"]

\* an exception of send_request: its class and its text
NoError == [kind |-> "none", message |-> "none"]

\* the exceptions send_request raises, with a text it gives them
send_error(e) ==
    [kind |-> e,
     message |-> CASE e = "MCPConnectionError" -> "Client not connected"
                   [] e = "MCPTimeoutError" -> "Request timed out after 30.0s"
                   [] e = "MCPTransportError" ->
                        "Transport error: Empty response from server"]

\* get_clients and sends count the calls of manager.get_client and of
\* client.send_request made by this execute_tool; client is the instance
\* get_client returned; response is what
\* send_request returned to it, raised what it raised, and message the
\* text of the exception execute_tool raised
IdleCall ==
    [pc |-> "idle", full_name |-> "none", params |-> "none",
     server |-> "none", client |-> 0, get_clients |-> 0, sends |-> 0,
     request |-> NoRequest, response |-> NoResponse, raised |-> NoError,
     result |-> NoOutcome, message |-> "none"]

\* an execute_tool call that ran to its end: its locals are gone
Done(call, r, message) ==
    [call EXCEPT !.pc = "idle", !.params = "none", !.server = "none",
                 !.client = 0,
                 !.request = NoRequest, !.result = r, !.message = message]

\* a JSON-RPC response as execute_tool reads it: the result and error
\* members, each absent or present; a present result may be null, a present
\* error is an object with or without a message
Absent == "absent"
Null == "null"
NoMessage == "no message"
Responses ==
    [result : {Absent, Null, "content"},
     error : {Absent, NoMessage, "Method not found"}]

\* the exceptions send_request raises once the request is written
SendErrors == {"MCPTimeoutError", "MCPTransportError"}

\* f"Tool execution error: {error.get('message', 'Unknown error')}"
execution_error(error) ==
    "Tool execution error: "
        \o (IF error = NoMessage THEN "Unknown error" ELSE error)

\* response.get("result")
get_result(response) ==
    IF response.result \in {Absent, Null} THEN "None" ELSE response.result

\* what execute_tool does with the response
tool_outcome_result_first(response) ==
    IF response.result # Absent
    THEN [result |-> Returned(get_result(response)), message |-> "none"]
    ELSE IF response.error # Absent
    THEN [result |-> Raised("Exception", "bridge"),
          message |-> execution_error(response.error)]
    ELSE [result |-> Returned("None"), message |-> "none"]

tool_outcome(response) ==
    IF response.error # Absent
    THEN [result |-> Raised("Exception", "bridge"),
          message |-> execution_error(response.error)]
    ELSE [result |-> Returned(get_result(response)), message |-> "none"]

\* execute_tool has no handler around "await client.send_request(request)":
\* what send_request raises leaves execute_tool as it is
propagate_wrapped(exc) ==
    [result |-> Raised("Exception", "bridge"),
     message |-> "Tool execution error: " \o exc.message]

propagate(exc) ==
    [result |-> Raised(exc.kind, "client"), message |-> exc.message]

\* execute_tool(full_tool_name, params), up to the await inside
\* client.send_request
ExecuteToolBegin(c, full_tool_name, params) ==
    /\ bcall[c].pc = "idle"
    /\ LET tool == get_tool(full_tool_name)
           started == [IdleCall EXCEPT !.full_name = full_tool_name,
                                       !.params = params]
       IN IF tool = NoTool
          THEN /\ bcall' = [bcall EXCEPT ![c] =
                     Done(started, Raised("ValueError", "bridge"),
                          "Tool not found: " \o full_tool_name)]
               /\ UNCHANGED request_id
          ELSE LET got == [started EXCEPT !.get_clients = 1]
                   client == get_client(tool.server_name)
               IN IF client.kind = "raise"
                  THEN /\ bcall' = [bcall EXCEPT ![c] =
                                       Done(got, client, "none")]
                       /\ UNCHANGED request_id
                  ELSE /\ request_id < MaxRequests
                       /\ request_id' = request_id + 1
                       /\ IF ~objects[client.what].connected
                          THEN LET exc == send_error("MCPConnectionError")
                               IN bcall' = [bcall EXCEPT ![c] =
                                     Done([got EXCEPT !.sends = 1,
                                                      !.raised = exc],
                                          propagate(exc).result,
                                          propagate(exc).message)]
                          ELSE bcall' = [bcall EXCEPT ![c] =
                                  [got EXCEPT
                                      !.pc = "awaiting",
                                      !.server = tool.server_name,
                                      !.client = client.what,
                                      !.sends = 1,
                                      !.request =
                                          tools_call_request(request_id + 1,
                                                             tool, params)]]
    /\ UNCHANGED <<tools, schemas, provider_failures, provider_last_failure>>
    /\ UNCHANGED <<breakerVars, now, last, managerVars, unitVars>>

\* execute_tool: send_request returned a response
ExecuteToolEnd(c, response) ==
    /\ bcall[c].pc = "awaiting"
    /\ bcall' = [bcall EXCEPT ![c] =
                    Done([@ EXCEPT !.response = response],
                         tool_outcome(response).result,
                         tool_outcome(response).message)]
    /\ provider_failures' = [provider_failures EXCEPT ![bcall[c].server] = 0]
    /\ UNCHANGED <<tools, schemas, request_id, provider_last_failure>>
    /\ UNCHANGED <<breakerVars, now, last, managerVars, unitVars>>

\* execute_tool: send_request raised e
ExecuteToolRaise(c, e) ==
    /\ bcall[c].pc = "awaiting"
    /\ bcall' = [bcall EXCEPT ![c] =
                    Done([@ EXCEPT !.raised = send_error(e)],
                         propagate(send_error(e)).result,
                         propagate(send_error(e)).message)]
    /\ provider_failures' =
          [provider_failures EXCEPT ![bcall[c].server] =
              Min(@ + 1, failure_threshold)]
    /\ provider_last_failure' =
          [provider_last_failure EXCEPT ![bcall[c].server] = now]
    /\ UNCHANGED <<tools, schemas, request_id>>
    /\ UNCHANGED <<breakerVars, now, last, managerVars, unitVars>>

(***************************************************************************)
(* registry.py: MCPToolRegistry used from several threads                  *)
(***************************************************************************)
Threads == {"r1", "r2"}

\* provider names and local tool names handed to register_tool
RegistryServers == {"a", "a.b"}
RegistryTools == {"c", "b.c"}

\* no object: get_tool returned None, no list was returned
NoObject == 0

\* a thread outside the registry; inside register_tool it holds the
\* arguments, the name built, and the entries, by content, as the call
\* found them
IdleThread ==
    [pc |-> "idle", server_name |-> "none", tool |-> NoObject,
     full_name |-> "none", before |-> EmptyDict]

\* a registry operation that returned: its arguments, and in name, tool,
\* list, removed and count what it returned
NoRegistryOp ==
    [op |-> "none", who |-> "none", server_name |-> "none",
     full_name |-> "none", tool |-> NoObject, name |-> "none",
     list |-> NoObject, removed |-> "none", count |-> None]

RegistryOp(op, th) == [NoRegistryOp EXCEPT !.op = op, !.who = th]

\* with self._lock: the lock can be taken
lock_free_always == TRUE

lock_free == lock = "free"

\* the entries of _tools by content
entries == [k \in DOMAIN tools |-> schemas[tools[k]]]

\* a caller constructs MCPToolSchema(name=name)
NewSchema(name) ==
    /\ Len(schemas) < MaxSchemas
    /\ schemas' = Append(schemas, MCPToolSchema(name))
    /\ UNCHANGED <<tools, request_id, bcall, provider_failures,
                   provider_last_failure>>
    /\ UNCHANGED <<breakerVars, now, last, managerVars, unitVars>>

\* register_tool(server_name, tool): the lock is taken and full_name built
RegisterToolAcquire(th, server_name, tool) ==
    /\ rcall[th].pc = "idle"
    /\ lock_free
    /\ tool \in DOMAIN schemas
    /\ lock' = th
    /\ rcall' = [rcall EXCEPT ![th] =
                    [IdleThread EXCEPT
                        !.pc = "locked",
                        !.server_name = server_name,
                        !.tool = tool,
                        !.full_name =
                            full_name(server_name, schemas[tool].name),
                        !.before = entries]]
    /\ UNCHANGED <<lists, rlast, registered, dcall, conn, backoff, stdio, loader>>
    /\ UNCHANGED <<breakerVars, now, last, managerVars, bridgeVars>>

\* register_tool: tool.server_name = server_name
RegisterToolSetServerName(th) ==
    /\ rcall[th].pc = "locked"
    /\ schemas' = [schemas EXCEPT
                      ![rcall[th].tool].server_name = rcall[th].server_name]
    /\ rcall' = [rcall EXCEPT ![th].pc = "named"]
    /\ UNCHANGED <<tools, request_id, bcall, provider_failures,
                   provider_last_failure>>
    /\ UNCHANGED <<lock, lists, rlast, registered, dcall, conn, backoff, stdio, loader>>
    /\ UNCHANGED <<breakerVars, now, last, managerVars>>

\* register_tool: tool.full_name = full_name
RegisterToolSetFullName(th) ==
    /\ rcall[th].pc = "named"
    /\ schemas' = [schemas EXCEPT
                      ![rcall[th].tool].full_name = rcall[th].full_name]
    /\ rcall' = [rcall EXCEPT ![th].pc = "qualified"]
    /\ UNCHANGED <<tools, request_id, bcall, provider_failures,
                   provider_last_failure>>
    /\ UNCHANGED <<lock, lists, rlast, registered, dcall, conn, backoff, stdio, loader>>
    /\ UNCHANGED <<breakerVars, now, last, managerVars>>

\* register_tool: self._tools[full_name] = tool; the lock is released and
\* full_name returned
RegisterToolStore(th) ==
    /\ rcall[th].pc = "qualified"
    /\ tools' = DictSet(tools, rcall[th].full_name, rcall[th].tool)
    /\ lock' = "free"
    /\ rcall' = [rcall EXCEPT ![th] = IdleThread]
    /\ rlast' = [RegistryOp("register_tool", th) EXCEPT
                    !.server_name = rcall[th].server_name,
                    !.tool = rcall[th].tool,
                    !.name = rcall[th].full_name]
    /\ registered' =
          DictSet(registered, rcall[th].full_name,
                  [server_name |-> rcall[th].server_name,
                   name |-> schemas[rcall[th].tool].name])
    /\ UNCHANGED <<schemas, request_id, bcall, provider_failures,
                   provider_last_failure>>
    /\ UNCHANGED <<lists, dcall, conn, backoff, stdio, loader>>
    /\ UNCHANGED <<breakerVars, now, last, managerVars>>

\* get_tool(full_name) under the lock
GetTool(th, full_tool_name) ==
    /\ rcall[th].pc = "idle"
    /\ lock_free
    /\ rlast' = [RegistryOp("get_tool", th) EXCEPT
                    !.full_name = full_tool_name,
                    !.tool = IF full_tool_name \in DOMAIN tools
                             THEN tools[full_tool_name] ELSE NoObject]
    /\ UNCHANGED <<lock, rcall, lists, registered, dcall, conn, backoff,
                   stdio, loader>>
    /\ UNCHANGED <<breakerVars, now, last, managerVars, bridgeVars>>

\* the keys of the entries list_tools(server_name) returns: all of them for
\* None, otherwise those whose descriptor has tool.server_name ==
\* server_name
listed(server_name) ==
    {k \in DOMAIN tools :
        server_name = "None" \/ schemas[tools[k]].server_name = server_name}

\* list_tools(server_name) under the lock: a new list of the descriptor
\* objects, held here by the key of each entry; seen is the content of the
\* descriptors at the time
ListTools(th, server_name) ==
    /\ rcall[th].pc = "idle"
    /\ lock_free
    /\ Len(lists) < MaxLists
    /\ lists' = Append(lists,
                       [items |-> [k \in listed(server_name) |-> tools[k]],
                        seen |-> [k \in listed(server_name) |-> entries[k]]])
    /\ rlast' = [RegistryOp("list_tools", th) EXCEPT
                    !.server_name = server_name,
                    !.list = Len(lists) + 1]
    /\ UNCHANGED <<lock, rcall, registered, dcall, conn, backoff, stdio, loader>>
    /\ UNCHANGED <<breakerVars, now, last, managerVars, bridgeVars>>

\* remove_tool(full_name) under the lock
RemoveTool(th, full_tool_name) ==
    /\ rcall[th].pc = "idle"
    /\ lock_free
    /\ tools' = IF full_tool_name \in DOMAIN tools
                THEN DictDel(tools, full_tool_name) ELSE tools
    /\ rlast' = [RegistryOp("remove_tool", th) EXCEPT
                    !.full_name = full_tool_name,
                    !.removed = IF full_tool_name \in DOMAIN tools
                                THEN "True" ELSE "False"]
    /\ registered' = IF full_tool_name \in DOMAIN registered
                     THEN DictDel(registered, full_tool_name)
                     ELSE registered
    /\ UNCHANGED <<schemas, request_id, bcall, provider_failures,
                   provider_last_failure>>
    /\ UNCHANGED <<lock, rcall, lists, dcall, conn, backoff, stdio, loader>>
    /\ UNCHANGED <<breakerVars, now, last, managerVars>>

\* clear() under the lock
Clear(th) ==
    /\ rcall[th].pc = "idle"
    /\ lock_free
    /\ tools' = EmptyDict
    /\ rlast' = RegistryOp("clear", th)
    /\ registered' = EmptyDict
    /\ UNCHANGED <<schemas, request_id, bcall, provider_failures,
                   provider_last_failure>>
    /\ UNCHANGED <<lock, rcall, lists, dcall, conn, backoff, stdio, loader>>
    /\ UNCHANGED <<breakerVars, now, last, managerVars>>

\* get_tool_count() under the lock
GetToolCount(th) ==
    /\ rcall[th].pc = "idle"
    /\ lock_free
    /\ rlast' = [RegistryOp("get_tool_count", th) EXCEPT
                    !.count = Cardinality(DOMAIN tools)]
    /\ UNCHANGED <<lock, rcall, lists, registered, dcall, conn, backoff,
                   stdio, loader>>
    /\ UNCHANGED <<breakerVars, now, last, managerVars, bridgeVars>>

(***************************************************************************)
(* discovery.py: discover_tools and discover_tools_from_manager            *)
(***************************************************************************)
\* an entry of result.tools: its name, or no name
ToolEntries == ToolNames \cup {Absent}

ToolLists == UNION {[1..n -> ToolEntries] : n \in 0..MaxTools}

\* a tools/list response as discover_tools reads it: whether it has a
\* result, whether the result has tools, and the entries of tools
ListResponses ==
    {[has_result |-> FALSE, has_tools |-> FALSE, tools |-> <<>>],
     [has_result |-> TRUE, has_tools |-> FALSE, tools |-> <<>>]}
        \cup {[has_result |-> TRUE, has_tools |-> TRUE, tools |-> l] :
                 l \in ToolLists}

\* the loop over result["tools"]: ValueError at the first entry without a
\* name, otherwise one MCPToolSchema per entry
RECURSIVE parse_tools(_, _)
parse_tools(tools_data, acc) ==
    IF tools_data = <<>> THEN [kind |-> "return", tools |-> acc]
    ELSE IF Head(tools_data) = Absent
    THEN [kind |-> "raise", tools |-> <<>>]
    ELSE parse_tools(Tail(tools_data),
                     Append(acc, MCPToolSchema(Head(tools_data))))

\* what discover_tools makes of the response
parsed_keeps_valid(response) ==
    LET valid == SelectSeq(response.tools, LAMBDA e : e # Absent)
    IN [kind |-> "return",
        tools |-> [i \in DOMAIN valid |-> MCPToolSchema(valid[i])]]

parsed(response) ==
    IF ~response.has_result THEN [kind |-> "return", tools |-> <<>>]
    ELSE IF ~response.has_tools THEN [kind |-> "return", tools |-> <<>>]
    ELSE parse_tools(response.tools, <<>>)

\* "except (MCPConnectionError, MCPTimeoutError, MCPTransportError): raise"
reraise(exc) ==
    [result |-> Raised(exc.kind, "client"), message |-> exc.message]

\* a discovery call: the provider being asked and its client, the names
\* still to visit, the number of send_request calls made, what
\* send_request raised to discover_tools, the responses received by
\* provider, the providers left out, the lists built by provider
\* (discover_tools_from_manager) or the list built (discover_tools), and
\* the outcome
IdleDiscovery ==
    [pc |-> "idle", op |-> "none", server |-> "none", client |-> NoObject,
     names |-> <<>>, sends |-> 0, raised |-> NoError,
     answers |-> EmptyDict, skipped |-> {}, found |-> EmptyDict,
     tools |-> <<>>, result |-> NoOutcome, message |-> "none"]

\* a discovery call that ran to its end
Discovered(call, r, message) ==
    [call EXCEPT !.pc = "idle", !.server = "none", !.client = NoObject,
                 !.names = <<>>, !.result = r, !.message = message]

\* raise ValueError("Tool missing required 'name' field")
MissingName == "Tool missing required 'name' field"

\* discover_tools(client), up to the await inside client.send_request
DiscoverToolsBegin(o) ==
    /\ dcall.pc = "idle"
    /\ o \in DOMAIN objects
    /\ LET started == [IdleDiscovery EXCEPT !.op = "discover_tools",
                                            !.sends = 1]
           exc == send_error("MCPConnectionError")
       IN dcall' = IF ~objects[o].connected
                   THEN Discovered([started EXCEPT !.raised = exc],
                                   reraise(exc).result, reraise(exc).message)
                   ELSE [started EXCEPT !.pc = "awaiting",
                                        !.server = "client", !.client = o]
    /\ UNCHANGED <<registryVars, conn, backoff, stdio, loader>>
    /\ UNCHANGED <<breakerVars, now, last, managerVars, bridgeVars>>

\* discover_tools_from_manager from the next name on, up to the next
\* send_request that suspends or to the end of the loop: a name whose
\* get_client or send_request raises is passed over
RECURSIVE discover_from(_, _)
discover_from(call, names) ==
    IF names = <<>> THEN Discovered(call, Returned("result"), "none")
    ELSE LET n == Head(names)
             client == get_client(n)
         IN IF client.kind = "raise"
            THEN discover_from([call EXCEPT !.skipped = @ \cup {n}],
                               Tail(names))
            ELSE IF ~objects[client.what].connected
            THEN discover_from([call EXCEPT !.skipped = @ \cup {n},
                                            !.sends = @ + 1],
                               Tail(names))
            ELSE [call EXCEPT !.pc = "awaiting", !.server = n,
                              !.client = client.what,
                              !.names = Tail(names), !.sends = @ + 1]

\* discover_tools_from_manager(manager), up to the first send_request that
\* suspends; order is the order of the names in list_servers()
DiscoverToolsFromManagerBegin(order) ==
    /\ dcall.pc = "idle"
    /\ dcall' = discover_from(
                    [IdleDiscovery EXCEPT
                        !.op = "discover_tools_from_manager"],
                    SelectSeq(order, LAMBDA n : n \in DOMAIN server_configs))
    /\ UNCHANGED <<registryVars, conn, backoff, stdio, loader>>
    /\ UNCHANGED <<breakerVars, now, last, managerVars, bridgeVars>>

\* send_request returned response to discover_tools
DiscoverRespond(response) ==
    /\ dcall.pc = "awaiting"
    /\ LET out == parsed(response)
           got == [dcall EXCEPT
                      !.answers = DictSet(@, dcall.server, response)]
       IN dcall' =
             IF out.kind = "raise"
             THEN Discovered([got EXCEPT !.found = EmptyDict],
                             Raised("ValueError", "discovery"), MissingName)
             ELSE IF dcall.op = "discover_tools"
             THEN Discovered([got EXCEPT !.tools = out.tools],
                             Returned("tools"), "none")
             ELSE discover_from(
                     [got EXCEPT !.found = DictSet(@, dcall.server,
                                                   out.tools)],
                     dcall.names)
    /\ UNCHANGED <<registryVars, conn, backoff, stdio, loader>>
    /\ UNCHANGED <<breakerVars, now, last, managerVars, bridgeVars>>

\* send_request raised e to discover_tools
DiscoverRaise(e) ==
    /\ dcall.pc = "awaiting"
    /\ dcall' =
          IF dcall.op = "discover_tools"
          THEN Discovered([dcall EXCEPT !.raised = send_error(e)],
                          reraise(send_error(e)).result,
                          reraise(send_error(e)).message)
          ELSE discover_from(
                  [dcall EXCEPT !.skipped = @ \cup {dcall.server}],
                  dcall.names)
    /\ UNCHANGED <<registryVars, conn, backoff, stdio, loader>>
    /\ UNCHANGED <<breakerVars, now, last, managerVars, bridgeVars>>

(***************************************************************************)
(* client.py: connect, disconnect and the calls on a client of each        *)
(* transport                                                               *)
(***************************************************************************)
\* MCPSTDIOClient.__init__, MCPSSEClient.__init__: resource tells whether
\* _process (STDIO) or _client (SSE) is set; op and result are the last
\* call that ended and what it gave; closed counts, up to 2, the
\* disconnect() calls that returned since connect() was last called, and
\* cleaned tells whether one of them found the client connected
NewClient ==
    [resource |-> FALSE, connected |-> FALSE, pc |-> "idle",
     op |-> "none", result |-> NoOutcome, closed |-> 0, cleaned |-> FALSE]

\* connect(), up to its await: the SSE client stores its httpx client
\* before the request, the STDIO client stores nothing yet
ClientConnectBegin(k) ==
    /\ conn[k].pc = "idle"
    /\ conn' = [conn EXCEPT ![k] =
                   [@ EXCEPT !.pc = "connecting",
                             !.resource = IF k = SSE THEN TRUE ELSE @,
                             !.op = "none", !.result = NoOutcome,
                             !.closed = 0, !.cleaned = FALSE]]
    /\ UNCHANGED <<registryVars, dcall, backoff, stdio, loader>>
    /\ UNCHANGED <<breakerVars, now, last, managerVars, bridgeVars>>

\* connect(): the subprocess started or the endpoint answered, or not
ClientConnectEnd(k, ok) ==
    /\ conn[k].pc = "connecting"
    /\ conn' = [conn EXCEPT ![k] =
                   IF ok
                   THEN [@ EXCEPT !.pc = "idle", !.resource = TRUE,
                                  !.connected = TRUE, !.op = "connect",
                                  !.result = Returned("True")]
                   ELSE [@ EXCEPT !.pc = "idle", !.op = "connect",
                                  !.result = Raised("MCPConnectionError",
                                                    "client")]]
    /\ UNCHANGED <<registryVars, dcall, backoff, stdio, loader>>
    /\ UNCHANGED <<breakerVars, now, last, managerVars, bridgeVars>>

\* disconnect(): the finally clause
released_keeps_flag(client) == [client EXCEPT !.resource = FALSE]

released(client) ==
    [client EXCEPT !.resource = FALSE, !.connected = FALSE]

\* disconnect(): "except Exception: pass"; failed tells whether terminating
\* the subprocess or closing the httpx client raised
disconnect_result(failed) == Returned("None")

\* disconnect(), up to the await of process.wait() or aclose(); nothing
\* happens when there is no subprocess or httpx client
ClientDisconnectBegin(k) ==
    /\ conn[k].pc = "idle"
    /\ conn' = [conn EXCEPT ![k] =
                   IF conn[k].resource
                   THEN [@ EXCEPT !.pc = "disconnecting", !.op = "none",
                                  !.result = NoOutcome]
                   ELSE [@ EXCEPT !.op = "disconnect",
                                  !.result = Returned("None"),
                                  !.closed = Min(@ + 1, 2)]]
    /\ UNCHANGED <<registryVars, dcall, backoff, stdio, loader>>
    /\ UNCHANGED <<breakerVars, now, last, managerVars, bridgeVars>>

\* disconnect(): the cleanup ended, with or without an exception
ClientDisconnectEnd(k, failed) ==
    /\ conn[k].pc = "disconnecting"
    /\ conn' = [conn EXCEPT ![k] =
                   [released(@) EXCEPT !.pc = "idle", !.op = "disconnect",
                                       !.result = disconnect_result(failed),
                                       !.closed = Min(@ + 1, 2),
                                       !.cleaned = conn[k].connected]]
    /\ UNCHANGED <<registryVars, dcall, backoff, stdio, loader>>
    /\ UNCHANGED <<breakerVars, now, last, managerVars, bridgeVars>>

\* is_healthy(): False without a connection; otherwise whether the
\* subprocess is running, or whether the endpoint answered
client_is_healthy(client, alive) ==
    IF ~client.connected \/ ~client.resource THEN "False" ELSE alive

ClientIsHealthy(k, alive) ==
    /\ conn[k].pc = "idle"
    /\ conn' = [conn EXCEPT ![k] =
                   [@ EXCEPT !.op = "is_healthy",
                             !.result =
                                 Returned(client_is_healthy(conn[k], alive))]]
    /\ UNCHANGED <<registryVars, dcall, backoff, stdio, loader>>
    /\ UNCHANGED <<breakerVars, now, last, managerVars, bridgeVars>>

\* send_request(request): MCPConnectionError without a connection;
\* otherwise the response, or the error e
client_send_request(client, e) ==
    IF ~client.connected \/ ~client.resource
    THEN Raised("MCPConnectionError", "client")
    ELSE IF e = "none" THEN Returned("response")
    ELSE Raised(e, "client")

ClientSendRequest(k, e) ==
    /\ conn[k].pc = "idle"
    /\ conn' = [conn EXCEPT ![k] =
                   [@ EXCEPT !.op = "send_request",
                             !.result = client_send_request(conn[k], e)]]
    /\ UNCHANGED <<registryVars, dcall, backoff, stdio, loader>>
    /\ UNCHANGED <<breakerVars, now, last, managerVars, bridgeVars>>

\* get_tools(): MCPConnectionError when not connected; otherwise what
\* send_request raises, or the tools of its response
ClientGetTools(k, e) ==
    /\ conn[k].pc = "idle"
    /\ conn' = [conn EXCEPT ![k] =
                   [@ EXCEPT
                       !.op = "get_tools",
                       !.result =
                           IF ~conn[k].connected
                           THEN Raised("MCPConnectionError", "client")
                           ELSE IF client_send_request(conn[k], e).kind
                                     = "raise"
                           THEN client_send_request(conn[k], e)
                           ELSE Returned("tools")]]
    /\ UNCHANGED <<registryVars, dcall, backoff, stdio, loader>>
    /\ UNCHANGED <<breakerVars, now, last, managerVars, bridgeVars>>

(***************************************************************************)
(* loader.py and config.py: load_mcp_config                                *)
(***************************************************************************)
\* a key that os.environ does not hold
Unset == "unset"

\* the characters of the provider names used
name_chars(name) ==
    CASE name = "web" -> <<"w", "e", "b">>
      [] name = "db" -> <<"d", "b">>
      [] name = "file-system" ->
            <<"f", "i", "l", "e", "-", "s", "y", "s", "t", "e", "m">>
      [] name = "my server" ->
            <<"m", "y", " ", "s", "e", "r", "v", "e", "r">>
      [] OTHER -> <<>>

\* str.isalnum for one character
isalnum(c) ==
    c \in {"b", "d", "e", "f", "i", "l", "m", "r", "s", "t", "v", "w", "y"}

\* validate_server_names, for one name
valid_server_name(name) ==
    /\ name # ""
    /\ \A i \in DOMAIN name_chars(name) :
          isalnum(name_chars(name)[i]) \/ name_chars(name)[i] \in {"-", "_"}

\* str.strip and str.lower on the values used
strip(v) ==
    CASE v = " " -> ""
      [] v = " npx" -> "npx"
      [] OTHER -> v

lower(v) ==
    CASE v = "TRUE" -> "true"
      [] v = "SSE" -> "sse"
      [] OTHER -> v

\* command: min_length=1 and validate_command
valid_command(v) == v # "" /\ strip(v) # ""

\* substitute_env_vars(value) when os.environ holds CMD = cmd or no CMD:
\* the value, or "not found" for a reference that cannot be resolved
NotFound == "not found"
substitute_env_vars(value, cmd) ==
    IF value = "${CMD}"
    THEN IF cmd = Unset THEN NotFound ELSE cmd
    ELSE value

\* a provider as the JSON file defines it; args, env and description are
\* the same in every JSON definition
JsonCommands == {"", " npx", "${CMD}"}
JsonServers ==
    [command : JsonCommands, enabled : BOOLEAN, transport : TransportType]

\* the MCPServerConfig built from a JSON definition after substitution
json_server(def, cmd) ==
    [command |-> strip(substitute_env_vars(def.command, cmd)),
     args |-> <<"json-arg">>,
     env |-> "json-env",
     enabled |-> def.enabled,
     transport |-> def.transport,
     description |-> "from json"]

\* the configuration file: missing, not JSON, without "mcpServers", or with
\* one provider under one of two names and, possibly, provider "db"
JsonNames == {"web", "my server"}
DbServer == [command |-> " npx", enabled |-> TRUE, transport |-> STDIO]
JsonDicts ==
    {EmptyDict, [n \in {"db"} |-> DbServer]}
    \cup {[n \in {m} |-> def] : m \in JsonNames, def \in JsonServers}
    \cup {[n \in {m, "db"} |-> IF n = "db" THEN DbServer ELSE def] :
             m \in JsonNames, def \in JsonServers}
JsonFiles ==
    {[exists |-> FALSE, is_json |-> FALSE, has_servers |-> FALSE,
      mcpServers |-> EmptyDict],
     [exists |-> TRUE, is_json |-> FALSE, has_servers |-> FALSE,
      mcpServers |-> EmptyDict],
     [exists |-> TRUE, is_json |-> TRUE, has_servers |-> FALSE,
      mcpServers |-> EmptyDict]}
    \cup {[exists |-> TRUE, is_json |-> TRUE, has_servers |-> TRUE,
           mcpServers |-> d] : d \in JsonDicts}

\* what a step of load_mcp_config yields: a dict of providers or an error
NoLoadError == "none"
Loaded(servers) == [error |-> NoLoadError, servers |-> servers]
LoadFailed(error) == [error |-> error, servers |-> EmptyDict]

\* load_mcp_config, the JSON part: json_servers, or the error raised
json_servers(file, cmd) ==
    IF ~file.exists THEN Loaded(EmptyDict)
    ELSE IF ~file.is_json THEN LoadFailed("MCPConfigError")
    ELSE IF \E n \in DOMAIN file.mcpServers :
               substitute_env_vars(file.mcpServers[n].command, cmd) = NotFound
         THEN LoadFailed("MCPConfigError")
    ELSE IF ~file.has_servers THEN Loaded(EmptyDict)
    ELSE IF \E n \in DOMAIN file.mcpServers :
               \/ ~valid_command(
                      substitute_env_vars(file.mcpServers[n].command, cmd))
               \/ ~valid_server_name(n)
         THEN LoadFailed("MCPConfigError")
    ELSE Loaded([n \in DOMAIN file.mcpServers |->
                    json_server(file.mcpServers[n], cmd)])

\* the MCP_SERVER_i_* variables of one index: NAME absent, or NAME with
\* COMMAND, ENABLED and TRANSPORT each absent or set; ARGS, DESCRIPTION and
\* ENV_* are never set
EnvNames == {"web", "file-system", "my server"}
EnvCommands == {Unset, "", "npx"}
NoEnvServer ==
    [name |-> Unset, command |-> Unset, enabled |-> Unset,
     transport |-> Unset]
EnvServers ==
    {NoEnvServer}
    \cup [name : EnvNames, command : EnvCommands,
          enabled : {Unset, "false", "TRUE"}, transport : {Unset, "SSE"}]

\* parse_env_var_servers: the MCPServerConfig(...) call for one index
env_server(e) ==
    [command |-> strip(e.command),
     args |-> <<>>,
     env |-> "no env",
     enabled |-> IF e.enabled = Unset THEN TRUE
                 ELSE lower(e.enabled) \in {"true", "1", "yes"},
     transport |-> IF e.transport # Unset /\ lower(e.transport) = "sse"
                   THEN SSE ELSE STDIO,
     description |-> "None"]

\* parse_env_var_servers from index i on, servers being the dict built so
\* far: the dict, or the pydantic ValidationError of the first definition
\* MCPServerConfig rejects
RECURSIVE parse_env_from(_, _, _)
parse_env_from(environ, i, servers) ==
    IF i > Len(environ) THEN Loaded(servers)
    ELSE IF environ[i].name = Unset \/ environ[i].command = Unset
         THEN parse_env_from(environ, i + 1, servers)
    ELSE IF ~valid_command(environ[i].command)
         THEN LoadFailed("ValidationError")
    ELSE parse_env_from(environ, i + 1,
                        DictSet(servers, environ[i].name,
                                env_server(environ[i])))

parse_env_var_servers(environ) == parse_env_from(environ, 1, EmptyDict)

\* the merge of load_mcp_config
merged_field_wise(json, env) ==
    [n \in DOMAIN json \cup DOMAIN env |->
        IF n \in DOMAIN json
        THEN IF n \in DOMAIN env
             THEN [json[n] EXCEPT !.command = env[n].command,
                                  !.enabled = env[n].enabled]
             ELSE json[n]
        ELSE env[n]]

merged(json, env) ==
    [n \in DOMAIN json \cup DOMAIN env |->
        IF n \in DOMAIN env THEN env[n] ELSE json[n]]

\* load_mcp_config(config_path): the MCPServersConfig returned, or the
\* exception raised
NoResult == [kind |-> "none", what |-> "none", mcpServers |-> EmptyDict]
load_mcp_config(file, environ, cmd) ==
    LET json == json_servers(file, cmd)
        env == parse_env_var_servers(environ)
    IN IF json.error # NoLoadError
       THEN [kind |-> "raise", what |-> json.error,
             mcpServers |-> EmptyDict]
       ELSE IF env.error # NoLoadError
       THEN [kind |-> "raise", what |-> env.error,
             mcpServers |-> EmptyDict]
       ELSE IF \E n \in DOMAIN merged(json.servers, env.servers) :
                  ~valid_server_name(n)
       THEN [kind |-> "raise", what |-> "ValidationError",
             mcpServers |-> EmptyDict]
       ELSE [kind |-> "return", what |-> "MCPServersConfig",
             mcpServers |-> merged(json.servers, env.servers)]

\* no load_mcp_config call is modelled
NoLoad ==
    [file |-> [exists |-> FALSE, is_json |-> FALSE, has_servers |-> FALSE,
               mcpServers |-> EmptyDict],
     environ |-> <<>>, cmd |-> Unset, result |-> NoResult]

\* load_mcp_config() called once on the file and the environment
LoadMcpConfig ==
    /\ loader.result = NoResult
    /\ loader' = [loader EXCEPT !.result =
                     load_mcp_config(loader.file, loader.environ,
                                     loader.cmd)]
    /\ UNCHANGED <<registryVars, dcall, conn, backoff, stdio>>
    /\ UNCHANGED <<breakerVars, now, last, managerVars, bridgeVars>>

(***************************************************************************)
(* Initial states and specifications                                       *)
(***************************************************************************)
\* CircuitBreaker.__init__ defaults
DefaultFailureThreshold == 5
DefaultRecoveryTimeout == 60
DefaultSuccessThreshold == 2

\* CircuitBreaker.__init__: the fields of a new breaker
NewBreaker ==
    /\ state = CLOSED
    /\ failure_count = 0
    /\ success_count = 0
    /\ last_failure_time = None
    /\ pc = [c \in Callers |-> "idle"]
    /\ current_state = [c \in Callers |-> CLOSED]
    /\ serial = TRUE
    /\ consec_failures = 0
    /\ trial_successes = 0

\* MCPConnectionManager.__init__
NewManager ==
    /\ initialized = FALSE
    /\ server_configs = EmptyDict
    /\ clients = EmptyDict
    /\ objects = <<>>
    /\ task = [t \in Tasks \cup Children |-> IdleTask]

\* MCPToolRegistry.__init__ and MCPToolBridge.__init__
NewBridge ==
    /\ tools = EmptyDict
    /\ schemas = <<>>
    /\ request_id = 0
    /\ bcall = [c \in Callers |-> IdleCall]
    /\ provider_failures = [n \in ServerNames |-> 0]
    /\ provider_last_failure = [n \in ServerNames |-> None]

\* MCPToolRegistry.__init__ for the threads' registry, no discovery under
\* way, and the two clients as constructed
NewUnits ==
    /\ lock = "free"
    /\ rcall = [th \in Threads |-> IdleThread]
    /\ lists = <<>>
    /\ rlast = NoRegistryOp
    /\ registered = EmptyDict
    /\ dcall = IdleDiscovery
    /\ conn = [k \in TransportType |-> NewClient]
    /\ loader = NoLoad

\* a breaker constructed with small thresholds
Init ==
    /\ failure_threshold \in 1..MaxFailureThreshold
    /\ recovery_timeout \in 1..MaxRecoveryTimeout
    /\ success_threshold \in 1..MaxSuccessThreshold
    /\ NewBreaker
    /\ NewManager
    /\ NewBridge
    /\ now = 0
    /\ last = Op("init", "none")
    /\ backoff = NoBackoff
    /\ stdio = NewStdioClient
    /\ NewUnits

Next ==
    \/ ObserveState
    \/ \E passed \in {0, 1} : GetMetrics(now + passed)
    \/ \E c \in Callers : CallBegin(c)
    \/ \E c \in Callers, v \in Values : CallReturn(c, v)
    \/ \E c \in Callers, t \in ExceptionTypes : CallRaise(c, t)
    \/ Reset
    \/ Tick

Spec == Init /\ [][Next]_vars

\* recovery: the tasks call one at a time, and the wrapped operation stops
\* failing while the bounded clock still leaves recovery_timeout to elapse;
\* from then on every admitted operation succeeds
StillFailing == now + recovery_timeout <= MaxTime

NextRecovery ==
    \/ \E c \in Callers :
          (\A d \in Callers : pc[d] = "idle") /\ CallBegin(c)
    \/ \E c \in Callers, v \in Values : CallReturn(c, v)
    \/ \E c \in Callers, t \in ExceptionTypes :
          StillFailing /\ CallRaise(c, t)
    \/ Tick

\* time keeps advancing, the tasks keep calling, and an operation that was
\* started completes
SpecRecovery ==
    /\ Init
    /\ [][NextRecovery]_vars
    /\ WF_vars(Tick)
    /\ WF_vars(\E c \in Callers :
                  (\A d \in Callers : pc[d] = "idle") /\ CallBegin(c))
    /\ WF_vars(\E c \in Callers, v \in Values : CallReturn(c, v))

\* load_mcp_config on every configuration file, MCP_SERVER_1_* up to
\* MCP_SERVER_MaxEnvServers_*, and CMD set or not
InitLoader ==
    /\ failure_threshold = DefaultFailureThreshold
    /\ recovery_timeout = DefaultRecoveryTimeout
    /\ success_threshold = DefaultSuccessThreshold
    /\ NewBreaker
    /\ NewManager
    /\ NewBridge
    /\ now = 0
    /\ last = Op("init", "none")
    /\ backoff = NoBackoff
    /\ stdio = NewStdioClient
    /\ lock = "free"
    /\ rcall = [th \in Threads |-> IdleThread]
    /\ lists = <<>>
    /\ rlast = NoRegistryOp
    /\ registered = EmptyDict
    /\ dcall = IdleDiscovery
    /\ conn = [k \in TransportType |-> NewClient]
    /\ loader \in [file : JsonFiles,
                    environ : [1..MaxEnvServers -> EnvServers],
                    cmd : {Unset, "node"},
                    result : {NoResult}]

NextLoader == LoadMcpConfig

SpecLoader == InitLoader /\ [][NextLoader]_vars

\* a manager, with a breaker of default thresholds standing by
InitManager ==
    /\ failure_threshold = DefaultFailureThreshold
    /\ recovery_timeout = DefaultRecoveryTimeout
    /\ success_threshold = DefaultSuccessThreshold
    /\ NewBreaker
    /\ NewManager
    /\ NewBridge
    /\ now = 0
    /\ last = Op("init", "none")
    /\ backoff = NoBackoff
    /\ stdio = NewStdioClient
    /\ NewUnits

\* the configurations in which "a", if present, is a subprocess provider
\* and "b", if present, an HTTP one
PoolConfigs ==
    {cfg \in ServersConfigs :
        \A n \in DOMAIN cfg :
            cfg[n].transport = IF n = "a" THEN STDIO ELSE SSE}

NextManager ==
    \/ \E cfg \in PoolConfigs : Initialize(cfg)
    \/ \E t \in Tasks, n \in ServerNames, m \in 0..MaxRetries :
          ConnectServerBegin(t, n, m)
    \/ \E t \in Tasks, r \in {"True", "MCPConnectionError", "TypeError"},
          j \in Jitters : ConnectResult(t, r, j)
    \/ \E t \in Tasks : SleepDone(t)
    \/ \E t \in Tasks, n \in ServerNames : DisconnectServerBegin(t, n)
    \/ \E t \in Tasks : DisconnectServerEnd(t)

SpecManager == InitManager /\ [][NextManager]_vars

\* _calculate_backoff on its own, and connect_server on one enabled provider
\* with as many retries as it takes for the delay to reach max_delay
BackoffConfig == [n \in {"a"} |-> [enabled |-> TRUE, transport |-> STDIO]]

NextBackoff ==
    \/ \E a \in 0..MaxBackoffRetries, j \in BOOLEAN, u \in Jitters :
          CalculateBackoff(a, j, u)
    \/ Initialize(BackoffConfig)
    \/ \E m \in 0..MaxBackoffRetries : ConnectServerBegin("t1", "a", m)
    \/ \E r \in {"True", "MCPConnectionError"}, u \in Jitters :
          ConnectResult("t1", r, u)
    \/ SleepDone("t1")

SpecBackoff == InitManager /\ [][NextBackoff]_vars

\* every operation of the manager, from two tasks; each connect() fails or
\* succeeds, the jitter of the backoff being left out
NextPool ==
    \/ \E cfg \in PoolConfigs : Initialize(cfg)
    \/ \E t \in Tasks, n \in ServerNames : ConnectServerBegin(t, n, 1)
    \/ \E t \in Tasks \cup Children,
          r \in {"True", "MCPConnectionError", "TypeError"} :
          ConnectResult(t, r, 0)
    \/ \E t \in Tasks \cup Children : SleepDone(t)
    \/ \E t \in Tasks, n \in ServerNames : DisconnectServerBegin(t, n)
    \/ \E t \in Tasks \cup Children : DisconnectServerEnd(t)
    \/ \E t \in Tasks : ConnectAllEnabledBegin(t)
    \/ \E t \in Tasks, n \in ServerNames : GatheredConnect(t, n)
    \/ \E t \in Tasks : ConnectAllEnabledEnd(t)
    \/ \E t \in Tasks : ShutdownBegin(t)
    \/ \E t \in Tasks, n \in ServerNames : GatheredDisconnect(t, n)
    \/ \E t \in Tasks : ShutdownEnd(t)
    \/ \E t \in Tasks, o \in Orders, al \in [ServerNames -> {"True", "False"}] :
          HealthCheckAllBegin(t, o, al)
    \/ \E t \in Tasks, r \in HealthOutcomes, o \in Orders,
          al \in [ServerNames -> {"True", "False"}] :
          HealthCheckAllStep(t, r, o, al)

SpecPool == InitManager /\ [][NextPool]_vars

\* one subprocess client serving one send_request at a time
NextStdio ==
    \/ StdioConnect
    \/ SendRequestBegin
    \/ \E valid \in BOOLEAN : ProviderRespond(valid)
    \/ ProviderExit
    \/ SendRequestRead
    \/ SendRequestTimeout

SpecStdio == InitManager /\ [][NextStdio]_vars

\* the bridge over a manager driven by one task, with both providers
\* configured and enabled; the responses are those with a result that is
\* not null and an error that has a message
BridgeConfig ==
    [n \in ServerNames |->
        [enabled |-> TRUE, transport |-> IF n = "a" THEN STDIO ELSE SSE]]

NextBridge ==
    \/ Initialize(BridgeConfig)
    \/ \E n \in ServerNames : ConnectServerBegin("t1", n, 1)
    \/ ConnectResult("t1", "True", 0)
    \/ \E n \in ServerNames : DisconnectServerBegin("t1", n)
    \/ DisconnectServerEnd("t1")
    \/ \E n \in ServerNames, tl \in ToolNames :
          full_name(n, tl) \notin DOMAIN tools /\ RegisterTool(n, tl)
    \/ \E c \in Callers, f \in FullNames, p \in Params :
          ExecuteToolBegin(c, f, p)
    \/ \E c \in Callers, r \in Responses :
          /\ r.result # Null
          /\ r.error # NoMessage
          /\ ExecuteToolEnd(c, r)
    \/ \E c \in Callers, e \in SendErrors : ExecuteToolRaise(c, e)

\* execute_tool called by one task at a time, over the same manager
NextExecute ==
    \/ Initialize(BridgeConfig)
    \/ \E n \in ServerNames : ConnectServerBegin("t1", n, 1)
    \/ ConnectResult("t1", "True", 0)
    \/ \E n \in ServerNames : DisconnectServerBegin("t1", n)
    \/ DisconnectServerEnd("t1")
    \/ \E n \in ServerNames, tl \in ToolNames :
          full_name(n, tl) \notin DOMAIN tools /\ RegisterTool(n, tl)
    \/ \E f \in FullNames, p \in Params : ExecuteToolBegin("c1", f, p)
    \/ \E r \in Responses : ExecuteToolEnd("c1", r)
    \/ \E e \in SendErrors : ExecuteToolRaise("c1", e)

SpecExecute == InitManager /\ [][NextExecute]_vars

\* execute_tool called by two tasks that overlap, the providers staying
\* connected
NextIds ==
    \/ Initialize(BridgeConfig)
    \/ \E n \in ServerNames : ConnectServerBegin("t1", n, 1)
    \/ ConnectResult("t1", "True", 0)
    \/ \E n \in ServerNames, tl \in ToolNames :
          full_name(n, tl) \notin DOMAIN tools /\ RegisterTool(n, tl)
    \/ \E c \in Callers, f \in FullNames : ExecuteToolBegin(c, f, "args1")
    \/ \E c \in Callers :
          ExecuteToolEnd(c, [result |-> "content", error |-> Absent])
    \/ \E c \in Callers : ExecuteToolRaise(c, "MCPTimeoutError")

SpecIds == InitManager /\ [][NextIds]_vars

\* discovery over a manager driven by one task
NextDiscovery ==
    \/ Initialize(BridgeConfig)
    \/ \E n \in ServerNames : ConnectServerBegin("t1", n, 1)
    \/ ConnectResult("t1", "True", 0)
    \/ \E n \in ServerNames : DisconnectServerBegin("t1", n)
    \/ DisconnectServerEnd("t1")
    \/ \E o \in 1..MaxClients : DiscoverToolsBegin(o)
    \/ \E o \in Orders : DiscoverToolsFromManagerBegin(o)
    \/ \E r \in ListResponses : DiscoverRespond(r)
    \/ \E e \in SendErrors : DiscoverRaise(e)

SpecDiscovery == InitManager /\ [][NextDiscovery]_vars

\* execute_tool and discover_tools on clients whose send_request fails
NextErrors ==
    \/ Initialize(BridgeConfig)
    \/ \E n \in ServerNames : ConnectServerBegin("t1", n, 1)
    \/ ConnectResult("t1", "True", 0)
    \/ \E n \in ServerNames : DisconnectServerBegin("t1", n)
    \/ DisconnectServerEnd("t1")
    \/ \E n \in ServerNames, tl \in ToolNames :
          full_name(n, tl) \notin DOMAIN tools /\ RegisterTool(n, tl)
    \/ \E f \in FullNames : ExecuteToolBegin("c1", f, "args1")
    \/ ExecuteToolEnd("c1", [result |-> "content", error |-> Absent])
    \/ \E e \in SendErrors : ExecuteToolRaise("c1", e)
    \/ \E o \in 1..MaxClients : DiscoverToolsBegin(o)
    \/ DiscoverRespond([has_result |-> TRUE, has_tools |-> FALSE,
                        tools |-> <<>>])
    \/ \E e \in SendErrors : DiscoverRaise(e)

SpecErrors == InitManager /\ [][NextErrors]_vars

\* one client of each transport, one call at a time on each
NextClients ==
    \/ \E k \in TransportType : ClientConnectBegin(k)
    \/ \E k \in TransportType, ok \in BOOLEAN : ClientConnectEnd(k, ok)
    \/ \E k \in TransportType : ClientDisconnectBegin(k)
    \/ \E k \in TransportType, failed \in BOOLEAN :
          ClientDisconnectEnd(k, failed)
    \/ \E k \in TransportType, alive \in {"True", "False"} :
          ClientIsHealthy(k, alive)
    \/ \E k \in TransportType, e \in SendErrors \cup {"none"} :
          ClientSendRequest(k, e)
    \/ \E k \in TransportType, e \in SendErrors \cup {"none"} :
          ClientGetTools(k, e)

SpecClients == InitManager /\ [][NextClients]_vars

\* the registry used by two threads
RegistryNames ==
    {full_name(n, tl) : n \in RegistryServers, tl \in RegistryTools}

NextRegistry ==
    \/ \E tl \in RegistryTools : NewSchema(tl)
    \/ \E th \in Threads, n \in RegistryServers, o \in 1..MaxSchemas :
          RegisterToolAcquire(th, n, o)
    \/ \E th \in Threads : RegisterToolSetServerName(th)
    \/ \E th \in Threads : RegisterToolSetFullName(th)
    \/ \E th \in Threads : RegisterToolStore(th)
    \/ \E th \in Threads, f \in RegistryNames : GetTool(th, f)
    \/ \E th \in Threads, n \in RegistryServers \cup {"None"} :
          ListTools(th, n)
    \/ \E th \in Threads, f \in RegistryNames : RemoveTool(th, f)
    \/ \E th \in Threads : Clear(th)
    \/ \E th \in Threads : GetToolCount(th)

SpecRegistry == InitManager /\ [][NextRegistry]_vars

\* two threads registering descriptors not registered before for two
\* providers, and counting, listing and removing tools
NextThreads ==
    \/ NewSchema("c")
    \/ \E th \in Threads, n \in ServerNames, o \in DOMAIN schemas :
          schemas[o].full_name = "" /\ RegisterToolAcquire(th, n, o)
    \/ \E th \in Threads : RegisterToolSetServerName(th)
    \/ \E th \in Threads : RegisterToolSetFullName(th)
    \/ \E th \in Threads : RegisterToolStore(th)
    \/ \E th \in Threads : ListTools(th, "None")
    \/ \E th \in Threads : RemoveTool(th, "a.c")
    \/ \E th \in Threads : GetToolCount(th)

SpecThreads == InitManager /\ [][NextThreads]_vars

\* the providers' breakers would be built with a small failure_threshold
InitBridge ==
    /\ failure_threshold \in 1..MaxFailureThreshold
    /\ recovery_timeout = DefaultRecoveryTimeout
    /\ success_threshold = DefaultSuccessThreshold
    /\ NewBreaker
    /\ NewManager
    /\ NewBridge
    /\ now = 0
    /\ last = Op("init", "none")
    /\ backoff = NoBackoff
    /\ stdio = NewStdioClient
    /\ NewUnits

SpecBridge == InitBridge /\ [][NextBridge]_vars

TypeOK ==
    /\ state \in CircuitState
    /\ failure_count \in Nat
    /\ success_count \in Nat
    /\ last_failure_time \in {None} \cup 0..MaxTime
    /\ now \in 0..MaxTime

(***************************************************************************)
(* Properties of the circuit breaker                                       *)
(***************************************************************************)
Observations == {"state", "get_metrics", "call_rejected", "call_admitted"}
CallEntries == {"call_rejected", "call_admitted"}

\* recovery_timeout has elapsed since the last recorded failure
Elapsed ==
    last_failure_time # None /\ now - last_failure_time >= recovery_timeout

\* C1: a call() entered while the breaker is OPEN and recovery_timeout has
\* not elapsed since the last failure raises the breaker's
\* MCPConnectionError, does not start the operation, and leaves state,
\* failure_count, success_count and the failure timestamp unchanged.
C1_OpenFailsFast ==
    [][\A c \in Callers :
         (/\ last'.op \in CallEntries
          /\ last'.who = c
          /\ pc[c] = "idle"
          /\ state = OPEN
          /\ ~Elapsed)
         => (/\ last'.op = "call_rejected"
             /\ last'.outcome = CircuitOpenError
             /\ last'.func = NoOutcome
             /\ pc'[c] = "idle"
             /\ UNCHANGED <<state, failure_count, success_count,
                            last_failure_time>>)]_vars

C1_Witness ==
    /\ last.op = "call_rejected"
    /\ last.pre = OPEN
    /\ state = OPEN
    /\ last.outcome = CircuitOpenError
    /\ last.func = NoOutcome
    /\ pc[last.who] = "idle"

\* C2: with calls one at a time, a CLOSED breaker has failure_count equal to
\* the number of consecutive failing calls, which is below
\* failure_threshold; CLOSED becomes OPEN exactly at the step that makes
\* the failure_threshold-th consecutive failure; a successful call in
\* CLOSED leaves it CLOSED with failure_count 0.
C2_ClosedCounts ==
    (serial /\ state = CLOSED)
        => (failure_count = consec_failures
            /\ consec_failures < failure_threshold)

C2_OpensAtThreshold ==
    /\ []C2_ClosedCounts
    /\ [][/\ (serial' /\ state = CLOSED /\ state' = OPEN)
              => (/\ last'.op = "call_raise"
                  /\ consec_failures' = failure_threshold
                  /\ failure_count' = failure_threshold)
          /\ (serial' /\ state = CLOSED /\ last'.op = "call_raise"
                /\ consec_failures' = failure_threshold)
              => state' = OPEN
          /\ (state = CLOSED /\ last'.op = "call_return")
              => (state' = CLOSED /\ failure_count' = 0)]_vars

C2_Witness ==
    /\ serial
    /\ failure_threshold = 2
    /\ last.op = "call_raise"
    /\ last.pre = CLOSED
    /\ state = OPEN
    /\ consec_failures = 2
    /\ failure_count = 2

\* C3: an observation (state, call, get_metrics) of an OPEN breaker leaves it
\* OPEN while recovery_timeout has not elapsed since the last failure, and
\* moves it to HALF_OPEN with success_count 0 once it has; OPEN becomes
\* HALF_OPEN only in such an observation, and the clock alone changes
\* nothing.
C3_LazyHalfOpen ==
    [][/\ (state = OPEN /\ last'.op \in Observations)
           => IF Elapsed
              THEN state' = HALF_OPEN /\ success_count' = 0
              ELSE state' = OPEN
       /\ (state = OPEN /\ state' = HALF_OPEN)
           => (last'.op \in Observations /\ Elapsed)
       /\ (last'.op = "tick")
           => UNCHANGED <<state, failure_count, success_count,
                          last_failure_time>>]_vars

C3_Witness ==
    /\ last.op \in Observations
    /\ last.pre = OPEN
    /\ state = HALF_OPEN
    /\ success_count = 0
    /\ now - last_failure_time = recovery_timeout

\* C4: a call that fails while the breaker is HALF_OPEN leaves it OPEN with
\* success_count 0 and the failure timestamp set to the current time,
\* whatever success_count was; and HALF_OPEN is only ever held when
\* recovery_timeout has elapsed since the last failure.
C4_HalfOpenFailureReopens ==
    /\ [](state = HALF_OPEN => Elapsed)
    /\ [][\A c \in Callers :
            (/\ last'.op = "call_raise"
             /\ last'.who = c
             /\ IsException(last'.func.what)
             /\ state = HALF_OPEN)
            => (/\ state' = OPEN
                /\ success_count' = 0
                /\ last_failure_time' = now
                /\ ~Elapsed')]_vars

C4_Witness ==
    /\ last.op = "call_raise"
    /\ last.pre = HALF_OPEN
    /\ state = OPEN
    /\ trial_successes = 1
    /\ success_threshold = 2
    /\ last_failure_time = now

\* C5: a successful call completing in HALF_OPEN closes the breaker exactly
\* when it is the success_threshold-th, and then failure_count and
\* success_count are 0 and the failure timestamp is cleared; with calls one
\* at a time success_count is the number of successful calls of the trial.
C5_TrialCounts ==
    (serial /\ state = HALF_OPEN)
        => (success_count = trial_successes
            /\ success_count < success_threshold)

C5_ClosesAtThreshold ==
    /\ []C5_TrialCounts
    /\ [][/\ (state = HALF_OPEN /\ last'.op = "call_return")
              => IF success_count + 1 >= success_threshold
                 THEN /\ state' = CLOSED
                      /\ failure_count' = 0
                      /\ success_count' = 0
                      /\ last_failure_time' = None
                 ELSE /\ state' = HALF_OPEN
                      /\ success_count' = success_count + 1
          /\ (serial' /\ state = HALF_OPEN /\ state' = CLOSED
                /\ last'.op # "reset")
              => (/\ last'.op = "call_return"
                  /\ trial_successes' = success_threshold)]_vars

C5_Witness ==
    /\ serial
    /\ success_threshold = 2
    /\ last.op = "call_return"
    /\ last.pre = HALF_OPEN
    /\ state = CLOSED
    /\ trial_successes = 2
    /\ failure_count = 0
    /\ success_count = 0
    /\ last_failure_time = None

\* C6: while a call is between its state read and its success/failure
\* transition, no other caller's admission or transition changes the
\* breaker's state, counters or failure timestamp.
C6_CallIsCriticalSection ==
    [][\A c \in Callers, d \in Callers :
         (c # d /\ pc[c] = "awaiting" /\ last'.who = d)
         => UNCHANGED <<state, failure_count, success_count,
                        last_failure_time>>]_vars

C7_BridgeFailsFast ==
    [][\A c \in Callers :
         (bcall[c].pc = "idle" /\ bcall'[c].pc = "awaiting")
         => ~(/\ provider_failures[bcall'[c].server] >= failure_threshold
              /\ now - provider_last_failure[bcall'[c].server]
                    < recovery_timeout)]_vars

(***************************************************************************)
(* Properties of the connection manager                                    *)
(***************************************************************************)
\* task t moved in this step
Moved(t) == task'[t] # task[t]

\* server_name is configured and enabled
Connectable(server_name) ==
    /\ server_name \in DOMAIN server_configs
    /\ server_configs[server_name].enabled

\* C9: connect_server on a name that is not configured, or whose
\* configuration is disabled, raises MCPConnectionError at once for every
\* max_retries: no client is constructed, connect() is not invoked, nothing
\* sleeps and the pool is unchanged.
C9_DisabledNeverConnects ==
    [][\A t \in Tasks :
         (/\ task[t].pc = "idle"
          /\ Moved(t)
          /\ task'[t].op = "connect_server"
          /\ ~Connectable(task'[t].name))
         => (/\ task'[t].pc = "idle"
             /\ task'[t].result = Raised("MCPConnectionError", "manager")
             /\ task'[t].connects = 0
             /\ task'[t].sleeps = 0
             /\ objects' = objects
             /\ clients' = clients)]_vars

C9_Witness ==
    \E t \in Tasks :
        /\ task[t].pc = "idle"
        /\ task[t].op = "connect_server"
        /\ task[t].max_retries = 2
        /\ task[t].name \in DOMAIN server_configs
        /\ ~server_configs[task[t].name].enabled
        /\ task[t].result = Raised("MCPConnectionError", "manager")
        /\ task[t].connects = 0

\* C10: connect_server never makes more than max_retries connect attempts;
\* when it ends with the manager's MCPConnectionError on an enabled provider
\* it has made exactly max_retries attempts; none of its steps changes the
\* pool except a successful connect(), which ends the call returning True
\* with the connected client stored under the name.
C10_AttemptsBounded ==
    \A t \in Tasks :
        task[t].op = "connect_server"
        => task[t].connects <= task[t].max_retries

C10_RetryThenStore ==
    /\ []C10_AttemptsBounded
    /\ [][\A t \in Tasks :
            (Moved(t) /\ task'[t].op = "connect_server")
            => IF task'[t].result = Returned("True")
               THEN /\ task[t].pc = "connecting"
                    /\ task'[t].pc = "idle"
                    /\ task'[t].connects = task[t].connects
                    /\ task'[t].name \in DOMAIN clients'
                    /\ clients'[task'[t].name] = task[t].client
                    /\ objects'[task[t].client].connected
                    /\ \A n \in DOMAIN clients \ {task[t].name} :
                          n \in DOMAIN clients' /\ clients'[n] = clients[n]
               ELSE /\ clients' = clients
                    /\ (/\ task'[t].pc = "idle"
                        /\ Connectable(task'[t].name)
                        /\ task'[t].result =
                              Raised("MCPConnectionError", "manager"))
                       => task'[t].connects = task'[t].max_retries]_vars

C10_Witness ==
    \E t \in Tasks :
        /\ task[t].pc = "idle"
        /\ task[t].op = "connect_server"
        /\ Connectable(task[t].name)
        /\ task[t].max_retries = 2
        /\ task[t].connects = 2
        /\ task[t].sleeps = 1
        /\ task[t].result = Raised("MCPConnectionError", "manager")
        /\ task[t].name \notin DOMAIN clients

\* min(base_delay * 2^a, max_delay) for the defaults, in hundredths of a
\* second
CappedDelay(a) == IF a >= 5 THEN 3000 ELSE 100 * 2^a

\* C11: the delay computed after failed attempt a lies between
\* d = min(base_delay * 2^a, max_delay) and 1.5 * d, and is d (at most
\* max_delay) without jitter; the delay connect_server sleeps after attempt
\* a is in that range; a connect_server with max_retries = 3 that fails
\* twice and then succeeds makes exactly 3 attempts, the second delay
\* being greater than the first whatever the jitter.
C11_DelayInRange ==
    backoff.attempt # None
    => /\ CappedDelay(backoff.attempt) <= backoff.delay
       /\ 2 * backoff.delay <= 3 * CappedDelay(backoff.attempt)
       /\ ~backoff.jitter
           => (/\ backoff.delay = CappedDelay(backoff.attempt)
               /\ backoff.delay <= 3000)

C11_BackoffGrows ==
    /\ []C11_DelayInRange
    /\ [][\A t \in Tasks :
            /\ (/\ task[t].op = "connect_server"
                 /\ task[t].pc = "connecting"
                 /\ task'[t].pc = "sleeping")
                => (/\ CappedDelay(task[t].attempt) <= task'[t].delay
                    /\ 2 * task'[t].delay <= 3 * CappedDelay(task[t].attempt)
                    /\ task[t].attempt = 1 => task'[t].delay > task[t].delay)
            /\ (/\ Moved(t)
                 /\ task'[t].op = "connect_server"
                 /\ task'[t].result = Returned("True")
                 /\ task'[t].max_retries = 3
                 /\ task'[t].sleeps = 2)
                => task'[t].connects = 3]_vars

C11_Witness ==
    /\ task["t1"].pc = "idle"
    /\ task["t1"].op = "connect_server"
    /\ task["t1"].result = Returned("True")
    /\ task["t1"].max_retries = 3
    /\ task["t1"].sleeps = 2
    /\ task["t1"].connects = 3
    /\ backoff = [attempt |-> 7, jitter |-> FALSE, delay |-> 3000]

\* the names configured with enabled = true
EnabledConfigured ==
    {n \in DOMAIN server_configs : server_configs[n].enabled}

\* C12: connect_all_enabled never raises; the keys of the mapping it returns
\* are exactly the configured providers with enabled = true; the value of
\* a provider is true iff its connect_server returned True, which it does
\* exactly when a connect() succeeded, the client then being pooled under
\* the name; and a coroutine that ends with an error changes neither the
\* pool nor the coroutines of the other providers.
C12_NeverRaises ==
    \A t \in Tasks :
        task[t].op = "connect_all_enabled" => task[t].result.kind # "raise"

C12_ConnectAllCollects ==
    /\ []C12_NeverRaises
    /\ [][\A t \in Tasks :
            /\ (/\ task[t].pc = "idle"
                /\ Moved(t)
                /\ task'[t].op = "connect_all_enabled")
               => IF EnabledConfigured = {}
                  THEN /\ task'[t].pc = "idle"
                       /\ task'[t].result = Returned("results")
                       /\ task'[t].results = EmptyDict
                  ELSE /\ task'[t].pc = "gathering"
                       /\ task'[t].keys = EnabledConfigured
            /\ (/\ task[t].pc = "gathering"
                /\ task[t].op = "connect_all_enabled"
                /\ Moved(t))
               => /\ task'[t].pc = "idle"
                  /\ task'[t].result = Returned("results")
                  /\ DOMAIN task'[t].results = EnabledConfigured
                  /\ \A n \in EnabledConfigured :
                        task'[t].results[n]
                            = (task[Child(t, n)].result = Returned("True"))
            /\ \A n \in ServerNames :
                  (/\ task[t].op = "connect_all_enabled"
                   /\ Moved(Child(t, n))
                   /\ task[Child(t, n)].pc \in {"connecting", "sleeping"})
                  => /\ (task'[Child(t, n)].result = Returned("True"))
                            = objects'[task[Child(t, n)].client].connected
                     /\ objects'[task[Child(t, n)].client].connected
                        => (/\ n \in DOMAIN clients'
                            /\ clients'[n] = task[Child(t, n)].client)
                     /\ task'[Child(t, n)].result.kind = "raise"
                        => clients' = clients
                     /\ \A m \in ServerNames \ {n} :
                           task'[Child(t, m)] = task[Child(t, m)]]_vars

C12_Witness ==
    /\ EnabledConfigured = {"a", "b"}
    /\ task["t1"].pc = "idle"
    /\ task["t1"].op = "connect_all_enabled"
    /\ task["t1"].result = Returned("results")
    /\ task["t1"].results = [n \in {"a", "b"} |-> n = "b"]
    /\ DOMAIN clients = {"b"}
    /\ Len(objects) = 2
    /\ ~objects[1].connected

\* C13: when shutdown ends the pool is empty and disconnect() has been
\* invoked on every client that shutdown took out of the pool, whatever
\* connect_server or disconnect_server calls run meanwhile; a
\* disconnect_server coroutine that ends with an error leaves the
\* coroutines of the other clients untouched.
C13_ShutdownDisconnectsAll ==
    [][\A t \in Tasks :
         /\ (/\ task'[t].op = "shutdown"
             /\ Moved(t)
             /\ task'[t].pc = "idle")
            => /\ clients' = EmptyDict
               /\ \A n \in DOMAIN clients :
                     objects[clients[n]].disconnect_called
         /\ \A n \in ServerNames :
               (/\ task[t].op = "shutdown"
                /\ Moved(Child(t, n))
                /\ task'[Child(t, n)].result.kind = "raise")
               => \A m \in ServerNames \ {n} :
                     task'[Child(t, m)] = task[Child(t, m)]]_vars

\* C14: health_check_all never raises; the mapping it returns has one
\* boolean for each client pooled when it returns, false for a client whose
\* is_healthy() raised.
C14_HealthCheckNeverRaises ==
    /\ [](\A t \in Tasks :
            task[t].op = "health_check_all" => task[t].result.kind # "raise")
    /\ [][\A t \in Tasks :
            (/\ task'[t].op = "health_check_all"
             /\ Moved(t)
             /\ task'[t].pc = "idle")
            => /\ task'[t].result = Returned("results")
               /\ DOMAIN task'[t].results = DOMAIN clients
               /\ \A n \in DOMAIN clients :
                     task'[t].results[n] \in BOOLEAN]_vars

\* C15: every name in the pool is a configured provider with
\* enabled = true, and get_server_status reports connected = true for no
\* disabled provider.
C15_PoolIsEnabled ==
    /\ \A n \in DOMAIN clients :
          n \in DOMAIN server_configs /\ server_configs[n].enabled
    /\ \A n \in DOMAIN get_server_status :
          get_server_status[n].connected => get_server_status[n].enabled

C15_Witness ==
    /\ DOMAIN server_configs = {"a", "b"}
    /\ ~server_configs["a"].enabled
    /\ DOMAIN clients = {"b"}
    /\ get_server_status["b"] = [enabled |-> TRUE, connected |-> TRUE]
    /\ get_server_status["a"] = [enabled |-> FALSE, connected |-> FALSE]
    /\ task["t1"].pc = "idle"
    /\ task["t1"].op = "connect_all_enabled"
    /\ task["t1"].results = [n \in {"b"} |-> TRUE]
    /\ task["t2"].pc = "idle"
    /\ task["t2"].op = "connect_server"
    /\ task["t2"].name = "a"
    /\ task["t2"].result = Raised("MCPConnectionError", "manager")

\* C16: disconnect_server on a name that is not pooled raises
\* MCPConnectionError and changes neither the pool nor any client;
\* otherwise it invokes disconnect() once, on the client pooled under the
\* name, and when it ends the name is not in the pool, the other entries
\* are as they were, get_client(name) raises MCPConnectionError and
\* get_server_status reports connected = false for the name.
C16_DisconnectRemoves ==
    [][\A t \in Tasks :
         /\ (/\ task[t].pc = "idle"
             /\ Moved(t)
             /\ task'[t].op = "disconnect_server")
            => IF task'[t].name \notin DOMAIN clients
               THEN /\ task'[t].pc = "idle"
                    /\ task'[t].result = Raised("MCPConnectionError", "manager")
                    /\ task'[t].disconnects = 0
                    /\ clients' = clients
                    /\ objects' = objects
               ELSE /\ task'[t].pc = "disconnecting"
                    /\ task'[t].client = clients[task'[t].name]
                    /\ task'[t].disconnects = 1
                    /\ objects'[task'[t].client].disconnect_called
                    /\ clients' = clients
         /\ (task[t].pc = "disconnecting" /\ Moved(t))
            => /\ task'[t].pc = "idle"
               /\ task'[t].disconnects = 1
               /\ ~objects'[task[t].client].connected
               /\ task[t].name \notin DOMAIN clients'
               /\ \A n \in DOMAIN clients \ {task[t].name} :
                     n \in DOMAIN clients' /\ clients'[n] = clients[n]
               /\ get_client(task[t].name)'
                     = Raised("MCPConnectionError", "manager")
               /\ task[t].name \in DOMAIN server_configs
                  => ~get_server_status'[task[t].name].connected]_vars

C16_Witness ==
    \E t \in Tasks :
        /\ task[t].pc = "idle"
        /\ task[t].op = "disconnect_server"
        /\ task[t].name = "a"
        /\ task[t].result = Returned("None")
        /\ task[t].disconnects = 1
        /\ DOMAIN clients = {"b"}
        /\ get_client("a") = Raised("MCPConnectionError", "manager")
        /\ get_server_status["a"] = [enabled |-> TRUE, connected |-> FALSE]
        /\ ~objects[1].connected
        /\ objects[1].disconnect_called

(***************************************************************************)
(* Properties of the subprocess client                                     *)
(***************************************************************************)
\* C17: a send_request that returns a response returns the response to the
\* request it wrote, also after an earlier send_request timed out and the
\* provider answered that request late; and a timed-out send_request
\* leaves the client connected.
C17_ResponseMatchesRequest ==
    /\ (stdio.pc = "idle" /\ stdio.result.kind = "return")
       => stdio.result.what = stdio.id
    /\ (stdio.pc = "idle"
          /\ stdio.result = Raised("MCPTimeoutError", "client"))
       => stdio.connected

(***************************************************************************)
(* Properties of execute_tool                                              *)
(***************************************************************************)
\* caller c entered execute_tool in this step
Called(c) == bcall[c].pc = "idle" /\ bcall'[c] # bcall[c]

\* C18: execute_tool on a qualified name that is not in the registry raises
\* ValueError, having called neither manager.get_client nor
\* client.send_request, and leaves the request id counter as it was.
C18_NotFoundBeforeAnyCall ==
    [][\A c \in Callers :
         (Called(c) /\ bcall'[c].full_name \notin DOMAIN tools)
         => (/\ bcall'[c].pc = "idle"
             /\ bcall'[c].result = Raised("ValueError", "bridge")
             /\ bcall'[c].get_clients = 0
             /\ bcall'[c].sends = 0
             /\ bcall'[c].request = NoRequest
             /\ request_id' = request_id)]_vars

C18_Witness ==
    /\ bcall["c1"].pc = "idle"
    /\ bcall["c1"].full_name = "a.read_file"
    /\ bcall["c1"].result = Raised("ValueError", "bridge")
    /\ bcall["c1"].get_clients = 0
    /\ bcall["c1"].sends = 0
    /\ "a" \in DOMAIN clients
    /\ "b.read_file" \in DOMAIN tools
    /\ request_id = 1

\* C19: execute_tool on a registered tool asks the manager for the client of
\* the descriptor's server_name and, having got it, calls send_request
\* once, with the next request id, method "tools/call", params.name the
\* tool's local name and params.arguments the arguments supplied; a
\* response with a result and no error makes it return that result.
C19_SendsToolsCall ==
    [][\A c \in Callers :
         /\ (Called(c) /\ bcall'[c].full_name \in DOMAIN tools)
            => (/\ bcall'[c].get_clients = 1
                /\ IF schemas[tools[bcall'[c].full_name]].server_name
                         \notin DOMAIN clients
                   THEN /\ bcall'[c].pc = "idle"
                        /\ bcall'[c].result
                              = Raised("MCPConnectionError", "manager")
                        /\ bcall'[c].sends = 0
                        /\ request_id' = request_id
                   ELSE /\ bcall'[c].sends = 1
                        /\ request_id' = request_id + 1
                        /\ bcall'[c].pc = "awaiting"
                           => (/\ bcall'[c].server
                                    = schemas[tools[bcall'[c].full_name]].server_name
                               /\ bcall'[c].request
                                    = [jsonrpc |-> "2.0",
                                       method |-> "tools/call",
                                       id |-> request_id + 1,
                                       params |->
                                         [name |->
                                            schemas[tools[bcall'[c].full_name]].name,
                                          arguments |-> bcall'[c].params]]))
         /\ (bcall[c].pc = "awaiting" /\ bcall'[c] # bcall[c])
            => (/\ bcall'[c].pc = "idle"
                /\ bcall'[c].sends = 1
                /\ bcall'[c].get_clients = 1
                /\ request_id' = request_id
                /\ (/\ bcall'[c].response.error = Absent
                    /\ bcall'[c].response.result \notin {Absent, Null})
                   => bcall'[c].result
                         = Returned(bcall'[c].response.result))]_vars

C19_Witness ==
    /\ bcall["c1"].pc = "idle"
    /\ bcall["c1"].full_name = "b.read_file"
    /\ "b.read_file" \in DOMAIN tools
    /\ schemas[tools["b.read_file"]].server_name = "b"
    /\ schemas[tools["b.read_file"]].name = "read_file"
    /\ bcall["c1"].get_clients = 1
    /\ bcall["c1"].sends = 1
    /\ bcall["c1"].response = [result |-> "content", error |-> Absent]
    /\ bcall["c1"].result = Returned("content")
    /\ request_id = 2

C30_ResetCloses ==
    [][/\ last'.op = "reset"
           => (/\ state' = CLOSED
               /\ failure_count' = 0
               /\ success_count' = 0
               /\ last_failure_time' = None)
       /\ (last.op = "reset" /\ last'.op \in CallEntries)
           => last'.op = "call_admitted"
       /\ (state = CLOSED /\ state' = OPEN)
           => (/\ last'.op = "call_raise"
               /\ consec_failures' >= failure_threshold
               /\ failure_count' >= failure_threshold)
       /\ (last.op = "reset" /\ last'.op = "reset")
           => UNCHANGED <<state, failure_count, success_count,
                          last_failure_time>>]_vars

C30_Witness ==
    /\ last.op = "reset"
    /\ last.pre = OPEN
    /\ state = CLOSED
    /\ failure_count = 0
    /\ success_count = 0
    /\ last_failure_time = None
    /\ failure_threshold = 2

(***************************************************************************)
(* Properties of the tool registry                                         *)
(***************************************************************************)
\* thread th returns from register_tool in this step
Stored(th) == rcall[th].pc = "qualified" /\ rcall'[th].pc = "idle"

C26_OperationsAtomic ==
    /\ [](\A th \in Threads : rcall[th].pc # "idle" => lock = th)
    /\ [](lock = "free" => DOMAIN tools = DOMAIN registered)
    /\ [][rlast' # rlast
          => (/\ \A th \in Threads \ {rlast'.who} : rcall[th].pc = "idle"
              /\ rcall'[rlast'.who].pc = "idle"
              /\ rlast'.op = "get_tool_count"
                  => rlast'.count = Cardinality(DOMAIN registered)
              /\ rlast'.op = "list_tools"
                  => (/\ DOMAIN lists'[rlast'.list].items
                            \subseteq DOMAIN registered
                      /\ rlast'.server_name = "None"
                          => DOMAIN lists'[rlast'.list].items
                                = DOMAIN registered)
              /\ rlast'.op = "register_tool"
                  => DOMAIN tools' = DOMAIN registered \cup {rlast'.name})]_vars

C26_Witness ==
    /\ rlast.op = "get_tool_count"
    /\ rlast.who = "r1"
    /\ rlast.count = 1
    /\ lock = "r2"
    /\ rcall["r2"].pc = "qualified"
    /\ rcall["r2"].full_name = "b.c"
    /\ DOMAIN tools = {"a.c"}

\* C27: a list returned by list_tools keeps its members, and the name,
\* owning provider and qualified name of each member stay what they were
\* when it was returned, whatever is registered, removed or cleared
\* afterwards; every list_tools call returns a new list.
C27_ListIsSnapshot ==
    /\ [][/\ \A l \in DOMAIN lists : lists'[l].items = lists[l].items
          /\ (rlast' # rlast /\ rlast'.op = "list_tools")
              => rlast'.list \notin DOMAIN lists]_vars
    /\ [](\A l \in DOMAIN lists :
            \A k \in DOMAIN lists[l].items :
               schemas[lists[l].items[k]] = lists[l].seen[k])

\* C28: register_tool under a name that is already registered returns that
\* name, leaves the number of entries as it was and the name bound to the
\* descriptor handed in; every other entry keeps its descriptor, with the
\* content it had.
C28_ReRegistrationOverwrites ==
    [][\A th \in Threads :
         Stored(th)
         => LET name == rcall[th].full_name
                before == rcall[th].before
            IN /\ rlast'.name = name
               /\ tools'[name] = rcall[th].tool
               /\ name \in DOMAIN before
                   => Cardinality(DOMAIN tools')
                         = Cardinality(DOMAIN before)
               /\ \A k \in DOMAIN before \ {name} :
                     /\ k \in DOMAIN tools'
                     /\ tools'[k] = tools[k]
                     /\ schemas'[tools'[k]] = before[k]]_vars

(***************************************************************************)
(* Properties of the bridge's requests and of the errors passed on         *)
(***************************************************************************)
\* C21: every tools/call request built by the bridge carries an id above
\* the ids of all requests it built before, whatever the overlap of the
\* execute_tool calls: the new id exceeds _request_id as it was, which
\* bounds every id handed out so far, and the requests in flight have
\* different ids.
C21_RequestIdsIncrease ==
    /\ [](\A c \in Callers :
            bcall[c].pc = "awaiting"
            => (/\ bcall[c].request.id \in 1..request_id
                /\ \A d \in Callers \ {c} :
                      bcall[d].pc = "awaiting"
                      => bcall[d].request.id # bcall[c].request.id))
    /\ [][/\ request_id' >= request_id
          /\ \A c \in Callers :
                (Called(c) /\ bcall'[c].sends = 1)
                => request_id' = request_id + 1
          /\ \A c \in Callers :
                (Called(c) /\ bcall'[c].pc = "awaiting")
                => (/\ bcall'[c].request.id > request_id
                    /\ bcall'[c].request.id = request_id')]_vars

C21_Witness ==
    /\ bcall["c1"].pc = "awaiting"
    /\ bcall["c2"].pc = "awaiting"
    /\ bcall["c2"].request.id = 1
    /\ bcall["c1"].request.id = 2
    /\ request_id = 2

\* the exceptions of send_request
ClientErrors == {"MCPConnectionError", "MCPTimeoutError", "MCPTransportError"}

\* C22: when send_request raises MCPConnectionError, MCPTimeoutError or
\* MCPTransportError to execute_tool or to discover_tools, the call ends
\* raising that very exception, of the same class and with the same text,
\* after the one send_request it made.
C22_ClientErrorsSurface ==
    /\ \A c \in Callers :
          bcall[c].raised # NoError
          => (/\ bcall[c].raised.kind \in ClientErrors
              /\ bcall[c].pc = "idle"
              /\ bcall[c].result = Raised(bcall[c].raised.kind, "client")
              /\ bcall[c].message = bcall[c].raised.message
              /\ bcall[c].sends = 1)
    /\ dcall.raised # NoError
          => (/\ dcall.raised.kind \in ClientErrors
              /\ dcall.op = "discover_tools"
              /\ dcall.pc = "idle"
              /\ dcall.result = Raised(dcall.raised.kind, "client")
              /\ dcall.message = dcall.raised.message
              /\ dcall.tools = <<>>
              /\ dcall.sends = 1)

C22_Witness ==
    /\ bcall["c1"].raised = send_error("MCPTransportError")
    /\ bcall["c1"].result = Raised("MCPTransportError", "client")
    /\ bcall["c1"].message = "Transport error: Empty response from server"
    /\ dcall.raised = send_error("MCPTimeoutError")
    /\ dcall.result = Raised("MCPTimeoutError", "client")
    /\ dcall.message = "Request timed out after 30.0s"

\* the response discover_tools received
Answered == dcall.op = "discover_tools" /\ "client" \in DOMAIN dcall.answers

C24_ProviderErrorsOmitted ==
    (dcall.op = "discover_tools_from_manager" /\ dcall.pc = "idle")
    => (/\ dcall.result = Returned("result")
        /\ DOMAIN dcall.found = DOMAIN dcall.answers
        /\ DOMAIN dcall.found \cap dcall.skipped = {}
        /\ \A n \in DOMAIN dcall.found :
              dcall.found[n] = parsed(dcall.answers[n]).tools)

(***************************************************************************)
(* Properties of the clients                                               *)
(***************************************************************************)
\* C29: disconnect() on a client of either transport returns None whatever
\* the cleanup does; from then until connect() is called again the client
\* has no connection, is_healthy() returns False and send_request and
\* get_tools raise MCPConnectionError; a further disconnect() returns None
\* and leaves the client as it is.
C29_DisconnectIdempotent ==
    /\ [](\A k \in TransportType :
            /\ conn[k].op = "disconnect" => conn[k].result = Returned("None")
            /\ conn[k].closed > 0
               => (/\ ~conn[k].connected
                   /\ ~conn[k].resource
                   /\ conn[k].pc = "idle"))
    /\ [][\A k \in TransportType :
            (conn[k].closed > 0 /\ conn'[k] # conn[k]
               /\ conn'[k].pc = "idle")
            => (/\ conn'[k].op = "is_healthy"
                    => conn'[k].result = Returned("False")
                /\ conn'[k].op \in {"send_request", "get_tools"}
                    => conn'[k].result
                          = Raised("MCPConnectionError", "client")
                /\ conn'[k].op = "disconnect"
                    => (/\ conn'[k].result = Returned("None")
                        /\ conn'[k].resource = conn[k].resource
                        /\ conn'[k].connected = conn[k].connected))]_vars

C29_Witness ==
    /\ conn[STDIO].cleaned
    /\ conn[SSE].cleaned
    /\ conn[STDIO].closed = 2
    /\ conn[STDIO].op = "send_request"
    /\ conn[STDIO].result = Raised("MCPConnectionError", "client")
    /\ conn[SSE].closed = 1
    /\ conn[SSE].op = "is_healthy"
    /\ conn[SSE].result = Returned("False")

C38_CountersInRange ==
    (failure_threshold >= 1 /\ success_threshold >= 1)
        => /\ (state = CLOSED) => (failure_count < failure_threshold)
           /\ (state # HALF_OPEN) => (success_count = 0)
           /\ (state = HALF_OPEN) => (success_count < success_threshold)

\* two calls overlapped, one of them is still running in a trial that has
\* one success of the two it needs
C38_Witness ==
    /\ ~serial
    /\ state = HALF_OPEN
    /\ success_count = 1
    /\ success_threshold = 2
    /\ \E c \in Callers : pc[c] = "awaiting"

\* C39: when time keeps advancing, calls keep coming one at a time and the
\* admitted operations succeed, an OPEN breaker eventually becomes HALF_OPEN
\* and a HALF_OPEN breaker eventually becomes CLOSED: it does not stay OPEN
\* for ever.
C39_Recovers ==
    /\ (state = OPEN) ~> (state = HALF_OPEN)
    /\ (state = HALF_OPEN) ~> (state = CLOSED)

\* the success that closes a trial which began when an OPEN breaker was
\* called after recovery_timeout
C39_Witness ==
    /\ last.op = "call_return"
    /\ last.pre = HALF_OPEN
    /\ state = CLOSED
    /\ trial_successes = success_threshold
    /\ now >= recovery_timeout

\* C33: every client the manager has connected and not yet asked to
\* disconnect is the instance the pool holds for some provider, so that
\* connect_server for a pooled provider leaves no connected client outside
\* the pool.
C33_PoolOwnsConnected ==
    \A o \in DOMAIN objects :
        (objects[o].connected /\ ~objects[o].disconnect_called)
            => \E n \in DOMAIN clients : clients[n] = o

\* C34: health_check_all iterates a snapshot of the pool: when it resumes
\* from an is_healthy() during which connect_server or disconnect_server
\* changed the pool, it goes on to the next client or returns its mapping,
\* and does not raise.
C34_IterationSurvivesChange ==
    [][\A t \in Tasks :
          (/\ task[t].op = "health_check_all"
           /\ task[t].pc = "checking"
           /\ Cardinality(DOMAIN clients) # task[t].size
           /\ task'[t] # task[t])
          => \/ task'[t].pc = "checking"
             \/ task'[t].result = Returned("results")]_vars

\* C36: whatever the interleaving, a disconnect_server call (made by a task
\* or by shutdown) that fails fails with MCPConnectionError and no other
\* error.
C36_DisconnectRaisesOnlyConnectionError ==
    \A t \in DOMAIN task :
        (task[t].op = "disconnect_server" /\ task[t].result.kind = "raise")
            => task[t].result.what = "MCPConnectionError"

\* C37: whenever no registry operation is in progress, every entry stored
\* under key q holds a descriptor whose full_name is q and whose
\* server_name, ".", name spell q, also after one descriptor object was
\* registered under two providers.
C37_EntriesNamedByKey ==
    (lock = "free")
        => \A q \in DOMAIN tools :
              /\ schemas[tools[q]].full_name = q
              /\ full_name(schemas[tools[q]].server_name,
                           schemas[tools[q]].name) = q

\* C35: no two execute_tool calls are inside send_request of the same
\* client instance at the same time: a second request is not written to a
\* client before the first was answered or has failed.
C35_OneRequestInFlight ==
    \A c, d \in Callers :
        (c # d /\ bcall[c].pc = "awaiting" /\ bcall[d].pc = "awaiting")
            => bcall[c].client # bcall[d].client


(***************************************************************************)
(* load_mcp_config                                                         *)
(***************************************************************************)
\* the indices whose MCP_SERVER_i_NAME is n and whose command is set
env_defined(n) ==
    {i \in DOMAIN loader.environ :
        loader.environ[i].name = n /\ loader.environ[i].command # Unset}

\* the last of them
env_last(n) ==
    CHOOSE i \in env_defined(n) : \A j \in env_defined(n) : j <= i

\* the names either source defines
env_names == {n \in EnvNames : env_defined(n) # {}}
json_names == DOMAIN loader.file.mcpServers

\* C32: the configuration load_mcp_config returns holds the providers of
\* both sources; a provider the environment defines is the environment's
\* definition in every field (command, args, env, enabled, transport,
\* description), whatever the JSON file says under that name, and a
\* provider only the JSON file defines is the JSON definition
C32_EnvReplacesJson ==
    loader.result.kind = "return" =>
        /\ DOMAIN loader.result.mcpServers = json_names \cup env_names
        /\ \A n \in env_names :
              loader.result.mcpServers[n]
                  = env_server(loader.environ[env_last(n)])
        /\ \A n \in json_names \ env_names :
              loader.result.mcpServers[n]
                  = json_server(loader.file.mcpServers[n], loader.cmd)

\* JSON "web" enabled, MCP_SERVER_1 "web" with ENABLED=false: the result
\* holds a disabled "web" with the environment's command and no JSON
\* argument, next to the JSON-only "db"
C32_Witness ==
    /\ loader.result.kind = "return"
    /\ json_names = {"web", "db"}
    /\ loader.file.mcpServers["web"].enabled
    /\ loader.environ[1].name = "web"
    /\ loader.environ[1].enabled = "false"
    /\ ~loader.result.mcpServers["web"].enabled
    /\ loader.result.mcpServers["web"].command = "npx"
    /\ loader.result.mcpServers["web"].args = <<>>
    /\ loader.result.mcpServers["db"].args = <<"json-arg">>

\* the configuration is invalid: the file is not JSON, or a provider of
\* either source has an empty command, a name with invalid characters or,
\* in the file, a reference to a variable that is not set
invalid_json ==
    /\ loader.file.exists
    /\ \/ ~loader.file.is_json
       \/ \E n \in json_names :
             \/ ~valid_server_name(n)
             \/ loader.file.mcpServers[n].command = ""
             \/ loader.file.mcpServers[n].command = "${CMD}"
                   /\ loader.cmd = Unset

invalid_env ==
    \E i \in DOMAIN loader.environ :
        /\ loader.environ[i].name # Unset
        /\ loader.environ[i].command # Unset
        /\ \/ loader.environ[i].command = ""
           \/ ~valid_server_name(loader.environ[i].name)

\* C40: once load_mcp_config has run on an invalid configuration, of
\* either source, it has raised MCPConfigError and returned nothing
C40_InvalidRaisesConfigError ==
    (loader.result # NoResult /\ (invalid_json \/ invalid_env)) =>
        /\ loader.result.kind = "raise"
        /\ loader.result.what = "MCPConfigError"

====
